---- MODULE Spec2Model ----
(***************************************************************************)
(* A model of the version composition engine of version-it:                *)
(*   crates/version-it-core/src/blocks.rs   (VersionBlock, VersionContext, *)
(*                                           VersionTemplate)              *)
(*   crates/version-it-core/src/composer.rs (VersionComposer)              *)
(*   crates/version-it-core/src/version.rs  (VersionInfo)                  *)
(*   crates/version-it-version/src/lib.rs   (the VersionInfo of that crate)*)
(*   crates/version-it-cli/src/commands.rs  (the bump command)             *)
(*   crates/version-it-cli/src/git_ops.rs   (git commit and git tag)       *)
(*                                                                         *)
(* Strings that end up in a generated version are sequences of one-        *)
(* character strings, so that joining, prefixing, trimming and decimal     *)
(* formatting are computed and not assumed.  Names (block, counter and     *)
(* template names, format selectors) are only compared and used as map     *)
(* keys, and are TLA+ strings.  A counter is a u32 and is kept as two      *)
(* 16-bit limbs <<hi, lo>> so that it has its full width.                  *)
(***************************************************************************)
EXTENDS Integers, Sequences, FiniteSets, TLC

VARIABLES
    template,   \* a VersionTemplate a caller built and generates from
    context,    \* the VersionContext that caller passes to VersionTemplate::generate
    composer,   \* a VersionComposer
    info,       \* a VersionInfo, None before VersionInfo::new has returned one
    lib_info,   \* a VersionInfo of the version-it-version crate, None likewise
    history,    \* the VersionInfo as it was constructed and the calls made on it since
    last        \* what the last call did: its inputs, its result, what it observed

vars == <<template, context, composer, info, lib_info, history, last>>

(***************************************************************************)
(* Option<T>, Result<T, E>, HashMap<K, V>                                  *)
(***************************************************************************)
None == <<>>
Some(x) == <<x>>
IsSome(o) == o # <<>>
Unwrap(o) == o[1]
UnwrapOr(o, d) == IF o = <<>> THEN d ELSE o[1]
\* a.or(b)
OptionOr(a, b) == IF a # <<>> THEN a ELSE b
OptionOf(set) == {None} \cup {Some(x) : x \in set}

\* Err carries the format string of the message and its argument.
Ok(v) == [ok |-> TRUE, val |-> v, err |-> "", arg |-> ""]
Err(e, a) == [ok |-> FALSE, val |-> <<>>, err |-> e, arg |-> a]

EmptyMap == [k \in {} |-> 0]
MapInsert(m, k, v) == [x \in DOMAIN m \cup {k} |-> IF x = k THEN v ELSE m[x]]
MapGet(m, k) == IF k \in DOMAIN m THEN Some(m[k]) ELSE None

(***************************************************************************)
(* Characters and decimal formatting                                       *)
(***************************************************************************)
Digits == <<"0", "1", "2", "3", "4", "5", "6", "7", "8", "9">>
DigitSet == {Digits[i] : i \in 1..10}
DigitVal(c) == CHOOSE d \in 0..9 : Digits[d + 1] = c
Letters ==
    {"a", "b", "c", "d", "e", "f", "g", "h", "i", "j", "k", "l", "m",
     "n", "o", "p", "q", "r", "s", "t", "u", "v", "w", "x", "y", "z",
     "A", "B", "C", "D", "E", "F", "G", "H", "I", "J", "K", "L", "M",
     "N", "O", "P", "Q", "R", "S", "T", "U", "V", "W", "X", "Y", "Z"}
Whitespace == {" ", "\n", "\t", "\r"}
AllIn(s, set) == \A i \in 1..Len(s) : s[i] \in set

\* u32 as two 16-bit limbs
Half == 256 * 256
U32(n) == <<n \div Half, n % Half>>
U32Max == <<Half - 1, Half - 1>>
U32Zero == <<0, 0>>
U32Succ(u) == IF u[2] < Half - 1 THEN <<u[1], u[2] + 1>> ELSE <<u[1] + 1, 0>>
U32DivTen(u) ==
    LET t == (u[1] % 10) * Half + u[2]
    IN  <<u[1] \div 10, t \div 10>>
U32ModTen(u) == ((u[1] % 10) * Half + u[2]) % 10

\* u32::to_string
RECURSIVE U32ToString(_)
U32ToString(u) ==
    IF u[1] = 0 /\ u[2] < 10 THEN <<Digits[u[2] + 1]>>
    ELSE Append(U32ToString(U32DivTen(u)), Digits[U32ModTen(u) + 1])

(***************************************************************************)
(* Unsigned integers of any width, as limbs of 16 bits, the most           *)
(* significant first: a u32 has two limbs (as above), a u64 four.          *)
(***************************************************************************)
W32 == 2
W64 == 4
WZero(w) == [i \in 1..w |-> 0]
WMax(w) == [i \in 1..w |-> Half - 1]
\* a small number at width w
Wide(n, w) == [i \in 1..w |-> IF i = w THEN n % Half ELSE IF i = w - 1 THEN n \div Half ELSE 0]

\* u + 1, for u below the maximum of its width
RECURSIVE WSucc(_)
WSucc(u) ==
    IF u[Len(u)] < Half - 1 THEN [u EXCEPT ![Len(u)] = @ + 1]
    ELSE WSucc(SubSeq(u, 1, Len(u) - 1)) \o <<0>>

\* u * 10 + d: the limbs, with the carry out of the top limb in front
RECURSIVE WMulTenAdd(_, _)
WMulTenAdd(u, d) ==
    IF u = <<>> THEN <<d>>
    ELSE WMulTenAdd(SubSeq(u, 1, Len(u) - 1), (u[Len(u)] * 10 + d) \div Half)
            \o <<(u[Len(u)] * 10 + d) % Half>>

\* u / 10 and u % 10 by long division: the quotient's limbs, then the remainder
RECURSIVE WDivModTen(_, _)
WDivModTen(u, r) ==
    IF u = <<>> THEN <<r>>
    ELSE <<(r * Half + u[1]) \div 10>> \o WDivModTen(Tail(u), (r * Half + u[1]) % 10)

\* uN::to_string
RECURSIVE WToString(_)
WToString(u) ==
    IF u = WZero(Len(u)) THEN <<"0">>
    ELSE IF SubSeq(WDivModTen(u, 0), 1, Len(u)) = WZero(Len(u))
         THEN <<Digits[WDivModTen(u, 0)[Len(u) + 1] + 1]>>
    ELSE Append(WToString(SubSeq(WDivModTen(u, 0), 1, Len(u))),
                Digits[WDivModTen(u, 0)[Len(u) + 1] + 1])

\* the digits of s from position i on, added to acc: None when the value does
\* not fit the width of acc
RECURSIVE WParseDigits(_, _, _)
WParseDigits(s, i, acc) ==
    IF i > Len(s) THEN Some(acc)
    ELSE IF Head(WMulTenAdd(acc, DigitVal(s[i]))) # 0 THEN None
    ELSE WParseDigits(s, i + 1, Tail(WMulTenAdd(acc, DigitVal(s[i]))))

\* str::parse::<uN>(): an optional "+", then one or more decimal digits, and the
\* value must fit; None is the ParseIntError
ParseUnsigned(s, w) ==
    IF s # <<>> /\ Head(s) = "+"
    THEN IF Len(s) = 1 \/ ~AllIn(Tail(s), DigitSet) THEN None
         ELSE WParseDigits(Tail(s), 1, WZero(w))
    ELSE IF s = <<>> \/ ~AllIn(s, DigitSet) THEN None
         ELSE WParseDigits(s, 1, WZero(w))

\* to_string of an integer the model keeps as a TLA+ natural (below 2^31)
NatToString(n) == U32ToString(U32(n))

\* format!("{:0w$}", n)
RECURSIVE ZeroPad(_, _)
ZeroPad(s, w) == IF Len(s) >= w THEN s ELSE ZeroPad(<<"0">> \o s, w)

\* str::trim
RECURSIVE TrimStart(_)
TrimStart(s) ==
    IF s # <<>> /\ Head(s) \in Whitespace THEN TrimStart(Tail(s)) ELSE s
RECURSIVE TrimEnd(_)
TrimEnd(s) ==
    IF s # <<>> /\ s[Len(s)] \in Whitespace
    THEN TrimEnd(SubSeq(s, 1, Len(s) - 1)) ELSE s
Trim(s) == TrimEnd(TrimStart(s))

(***************************************************************************)
(* semver::Version::parse and Version::to_string, as blocks.rs uses them   *)
(***************************************************************************)
\* the first position of c in s, 0 when there is none
RECURSIVE IndexOf(_, _, _)
IndexOf(s, c, i) ==
    IF i > Len(s) THEN 0 ELSE IF s[i] = c THEN i ELSE IndexOf(s, c, i + 1)

RECURSIVE SplitOn(_, _)
SplitOn(s, c) ==
    LET i == IndexOf(s, c, 1)
    IN  IF i = 0 THEN <<s>>
        ELSE <<SubSeq(s, 1, i - 1)>> \o SplitOn(SubSeq(s, i + 1, Len(s)), c)

\* a numeric identifier: digits, no leading zero
IsNumericId(s) == s # <<>> /\ AllIn(s, DigitSet) /\ (Len(s) = 1 \/ s[1] # "0")
IsPrereleaseId(s) ==
    /\ s # <<>>
    /\ AllIn(s, DigitSet \cup Letters \cup {"-"})
    /\ (AllIn(s, DigitSet) => IsNumericId(s))
IsBuildId(s) == s # <<>> /\ AllIn(s, DigitSet \cup Letters \cup {"-"})
AllPrereleaseIds(s) == \A i \in 1..Len(SplitOn(s, ".")) : IsPrereleaseId(SplitOn(s, ".")[i])
AllBuildIds(s) == \A i \in 1..Len(SplitOn(s, ".")) : IsBuildId(SplitOn(s, ".")[i])

SemverParse(text) ==
    LET plus == IndexOf(text, "+", 1)
        build == IF plus = 0 THEN None ELSE Some(SubSeq(text, plus + 1, Len(text)))
        rest == IF plus = 0 THEN text ELSE SubSeq(text, 1, plus - 1)
        dash == IndexOf(rest, "-", 1)
        pre == IF dash = 0 THEN None ELSE Some(SubSeq(rest, dash + 1, Len(rest)))
        core == SplitOn(IF dash = 0 THEN rest ELSE SubSeq(rest, 1, dash - 1), ".")
    IN  IF /\ Len(core) = 3
           /\ \A i \in 1..3 : IsNumericId(core[i]) /\ IsSome(ParseUnsigned(core[i], W64))
           /\ (IsSome(pre) => AllPrereleaseIds(Unwrap(pre)))
           /\ (IsSome(build) => AllBuildIds(Unwrap(build)))
        THEN Ok([major |-> Unwrap(ParseUnsigned(core[1], W64)),
                 minor |-> Unwrap(ParseUnsigned(core[2], W64)),
                 patch |-> Unwrap(ParseUnsigned(core[3], W64)),
                 pre |-> pre, build |-> build])
        ELSE Err("semver::Error", "")

SemverToString(v) ==
    WToString(v.major) \o <<".">> \o WToString(v.minor) \o <<".">> \o WToString(v.patch)
        \o (IF IsSome(v.pre) THEN <<"-">> \o Unwrap(v.pre) ELSE <<>>)
        \o (IF IsSome(v.build) THEN <<"+">> \o Unwrap(v.build) ELSE <<>>)

(***************************************************************************)
(* The environment of one call: what git answers and what the clock says.  *)
(* A git query either fails to start, exits non-zero, or succeeds with the *)
(* text it wrote to stdout.                                                *)
(***************************************************************************)
GitOk(stdout) == [kind |-> "ok", stdout |-> stdout]
GitExitNonZero == [kind |-> "exit_nonzero", stdout |-> <<>>]
GitSpawnFailed == [kind |-> "spawn_failed", stdout |-> <<>>]

\* one entry of a call's log of git queries
Query(cmd, output) == [cmd |-> cmd, kind |-> output.kind, stdout |-> output.stdout]

(***************************************************************************)
(* blocks.rs: VersionContext                                               *)
(***************************************************************************)
\* VersionContext::new
NewContext ==
    [current_version |-> None, current_commit |-> None, current_branch |-> None,
     build_number |-> None, counters |-> EmptyMap, block_values |-> EmptyMap]

with_version(ctx, version) == [ctx EXCEPT !.current_version = Some(version)]
with_commit(ctx, commit) == [ctx EXCEPT !.current_commit = Some(commit)]
with_branch(ctx, branch) == [ctx EXCEPT !.current_branch = Some(branch)]
with_build_number(ctx, build) == [ctx EXCEPT !.build_number = Some(build)]
with_counter(ctx, name, value) ==
    [ctx EXCEPT !.counters = MapInsert(@, name, value)]
\* an insert that keeps the value a name already has
keep_first_block_value(ctx, name, value) ==
    IF name \in DOMAIN ctx.block_values THEN ctx
    ELSE [ctx EXCEPT !.block_values = MapInsert(@, name, value)]
set_block_value(ctx, name, value) ==
    [ctx EXCEPT !.block_values = MapInsert(@, name, value)]
\* generate without the clear: the block_values of the call before stay visible
keep_block_values(ctx) == ctx
\* context.block_values.clear()
clear_block_values(ctx) == [ctx EXCEPT !.block_values = EmptyMap]

(***************************************************************************)
(* blocks.rs: VersionBlock::generate_value.  The result is the Result the  *)
(* code returns together with the git queries the evaluation issued.       *)
(***************************************************************************)
Evaluated(res, queries) == [res |-> res, queries |-> queries]

\* if let Some(m) = major { version.major = *m as u64 }, and so on
OverrideNothing(version, major, minor, patch) == version
Override(version, major, minor, patch) ==
    [version EXCEPT !.major = IF IsSome(major) THEN Wide(Unwrap(major), W64) ELSE @,
                    !.minor = IF IsSome(minor) THEN Wide(Unwrap(minor), W64) ELSE @,
                    !.patch = IF IsSome(patch) THEN Wide(Unwrap(patch), W64) ELSE @]

\* what follows semver::Version::parse(base_version)?
SemanticParsed(bt, parsed) ==
    IF ~parsed.ok THEN parsed
    ELSE Ok(SemverToString(Override(parsed.val, bt.major, bt.minor, bt.patch)))

SemanticValue(bt, ctx) ==
    SemanticParsed(bt, SemverParse(UnwrapOr(ctx.current_version, <<"0", ".", "0", ".", "0">>)))

CalverValue(bt, format, now) ==
    LET y == UnwrapOr(bt.year, now.year)
        m == UnwrapOr(bt.month, now.month)
        d == UnwrapOr(bt.day, now.day)
        yy == ZeroPad(NatToString(y % 100), 2)
        yyyy == ZeroPad(NatToString(y), 4)
        mm == ZeroPad(NatToString(m), 2)
        dd == ZeroPad(NatToString(d), 2)
    IN  IF format = Some("YYYY.MM.DD") THEN yyyy \o <<".">> \o mm \o <<".">> \o dd
        ELSE IF format = Some("YYMMDD") THEN yy \o mm \o dd
        ELSE IF format = Some("YYYYMMDD") THEN yyyy \o mm \o dd
        ELSE yy \o <<".">> \o mm \o <<".">> \o dd

\* Utc::now().timestamp(): the seconds from 1970-01-01T00:00:00 to now
UnixSeconds(now) ==
    LET y == IF now.month <= 2 THEN now.year - 1 ELSE now.year
        mp == IF now.month > 2 THEN now.month - 3 ELSE now.month + 9
        yoe == y % 400
        doy == (153 * mp + 2) \div 5 + now.day - 1
        doe == yoe * 365 + yoe \div 4 - yoe \div 100 + doy
        days == (y \div 400) * 146097 + doe - 719468
    IN  days * 86400 + now.hour * 3600 + now.minute * 60 + now.second

\* Utc::now().format(format).to_string(), for a format whose specifiers are
\* among %Y %m %d %H %M %S and %%
RECURSIVE DateValue(_, _)
DateValue(format, now) ==
    IF format = <<>> THEN <<>>
    ELSE IF format[1] = "%" /\ Len(format) >= 2
    THEN (CASE format[2] = "Y" -> ZeroPad(NatToString(now.year), 4)
            [] format[2] = "m" -> ZeroPad(NatToString(now.month), 2)
            [] format[2] = "d" -> ZeroPad(NatToString(now.day), 2)
            [] format[2] = "H" -> ZeroPad(NatToString(now.hour), 2)
            [] format[2] = "M" -> ZeroPad(NatToString(now.minute), 2)
            [] format[2] = "S" -> ZeroPad(NatToString(now.second), 2)
            [] format[2] = "%" -> <<"%">>)
         \o DateValue(SubSeq(format, 3, Len(format)), now)
    ELSE <<format[1]>> \o DateValue(Tail(format), now)

\* the Timestamp arm; an instant of the model is a whole number of
\* milliseconds, of which to_rfc3339 prints three digits unless they are 0
TimestampValue(format, now) ==
    IF format = Some("unix") THEN NatToString(UnixSeconds(now))
    ELSE IF format = Some("unix_ms")
         THEN NatToString(UnixSeconds(now)) \o ZeroPad(NatToString(now.milli), 3)
    ELSE IF format = Some("iso")
         THEN DateValue(<<"%", "Y", "-", "%", "m", "-", "%", "d", "T",
                          "%", "H", ":", "%", "M", ":", "%", "S">>, now)
                \o (IF now.milli = 0 THEN <<>>
                    ELSE <<".">> \o ZeroPad(NatToString(now.milli), 3))
                \o <<"+", "0", "0", ":", "0", "0">>
    ELSE DateValue(<<"%", "Y", "%", "m", "%", "d", "%", "H", "%", "M", "%", "S">>, now)

\* the Commit and the Branch arm: the context's field, else the git query
GitValue(field, cmd, output) ==
    IF IsSome(field) THEN Evaluated(Ok(Unwrap(field)), <<>>)
    ELSE IF output.kind = "spawn_failed"
         THEN Evaluated(Err("io::Error", ""), <<Query(cmd, output)>>)
    ELSE IF output.kind = "ok"
         THEN Evaluated(Ok(Trim(output.stdout)), <<Query(cmd, output)>>)
    ELSE Evaluated(Ok(<<"u", "n", "k", "n", "o", "w", "n">>), <<Query(cmd, output)>>)

VersionedValue(name, ctx) ==
    LET value == MapGet(ctx.block_values, name)
    IN  IF IsSome(value) THEN Ok(Unwrap(value))
        ELSE Err("Referenced version block '{}' not found", name)

generate_value(block, ctx, env) ==
    LET bt == block.block_type
    IN  CASE bt.kind = "Semantic" -> Evaluated(SemanticValue(bt, ctx), <<>>)
          [] bt.kind = "Calver" -> Evaluated(Ok(CalverValue(bt, block.format, env.now)), <<>>)
          [] bt.kind = "Timestamp" ->
                Evaluated(Ok(TimestampValue(block.format, env.now)), <<>>)
          [] bt.kind = "Commit" ->
                GitValue(ctx.current_commit, "rev-parse --short HEAD", env.commit)
          [] bt.kind = "Counter" ->
                Evaluated(Ok(U32ToString(UnwrapOr(MapGet(ctx.counters, bt.name), U32Zero))), <<>>)
          [] bt.kind = "Text" -> Evaluated(Ok(bt.value), <<>>)
          [] bt.kind = "Date" -> Evaluated(Ok(DateValue(bt.format, env.now)), <<>>)
          [] bt.kind = "Branch" ->
                GitValue(ctx.current_branch, "rev-parse --abbrev-ref HEAD", env.branch)
          [] bt.kind = "BuildNumber" ->
                Evaluated(Ok(NatToString(UnwrapOr(ctx.build_number, 1))), <<>>)
          [] bt.kind = "Versioned" -> Evaluated(VersionedValue(bt.name, ctx), <<>>)

(***************************************************************************)
(* blocks.rs: VersionTemplate::generate                                    *)
(***************************************************************************)
\* a join that ends every part with the separator, the last one too
RECURSIVE JoinEach(_, _)
JoinEach(parts, separator) ==
    IF parts = <<>> THEN <<>>
    ELSE parts[1] \o separator \o JoinEach(Tail(parts), separator)

\* parts.join(separator)
RECURSIVE Join(_, _)
Join(parts, separator) ==
    IF parts = <<>> THEN <<>>
    ELSE IF Len(parts) = 1 THEN parts[1]
    ELSE parts[1] \o separator \o Join(Tail(parts), separator)

\* the match on (prefix, suffix)
Wrap(prefix, suffix, joined) ==
    IF IsSome(prefix) /\ IsSome(suffix) THEN Unwrap(prefix) \o joined \o Unwrap(suffix)
    ELSE IF IsSome(prefix) THEN Unwrap(prefix) \o joined
    ELSE IF IsSome(suffix) THEN joined \o Unwrap(suffix)
    ELSE joined

(* The loop over the blocks.  run is what the call has done so far: the    *)
(* context, the parts pushed, the error that ended it (None while it       *)
(* runs), and what an observer of the call sees: the block_values each     *)
(* evaluation found, and the git queries issued.                           *)
StartRun(ctx) ==
    [context |-> ctx, parts |-> <<>>, error |-> None, found |-> <<>>, queries |-> <<>>]

\* the loop body without set_block_value: no value is recorded for later blocks
LoopBodyNoStore(block, run, ev) ==
    IF ~ev.res.ok
    THEN [run EXCEPT !.found = Append(@, run.context.block_values),
                     !.queries = @ \o ev.queries,
                     !.error = Some(ev.res)]
    ELSE [run EXCEPT !.found = Append(@, run.context.block_values),
                     !.queries = @ \o ev.queries,
                     !.parts = Append(@, ev.res.val)]

\* one turn of the loop: ev is what generate_value returned for block
LoopBody(block, run, ev) ==
    IF ~ev.res.ok
    THEN [run EXCEPT !.found = Append(@, run.context.block_values),
                     !.queries = @ \o ev.queries,
                     !.error = Some(ev.res)]
    ELSE [run EXCEPT !.found = Append(@, run.context.block_values),
                     !.queries = @ \o ev.queries,
                     !.context = set_block_value(@, block.name, ev.res.val),
                     !.parts = Append(@, ev.res.val)]

\* the loop without the ? on generate_value: it goes on after a failed block
RECURSIVE GenerateLoopOn(_, _, _, _)
GenerateLoopOn(blocks, i, env, run) ==
    IF i > Len(blocks) THEN run
    ELSE GenerateLoopOn(blocks, i + 1, env,
            LoopBody(blocks[i], run, generate_value(blocks[i], run.context, env)))

RECURSIVE GenerateLoop(_, _, _, _)
GenerateLoop(blocks, i, env, run) ==
    IF i > Len(blocks) \/ IsSome(run.error) THEN run
    ELSE GenerateLoop(blocks, i + 1, env,
            LoopBody(blocks[i], run, generate_value(blocks[i], run.context, env)))

\* what follows the loop: the join, the prefix and the suffix
Finish(self, run) ==
    [result |-> IF IsSome(run.error) THEN Unwrap(run.error)
                ELSE Ok(Wrap(self.prefix, self.suffix, Join(run.parts, self.separator))),
     template |-> self,
     context |-> run.context,
     parts |-> run.parts,
     found |-> run.found,
     queries |-> run.queries]

generate(self, ctx, env) ==
    Finish(self, GenerateLoop(self.blocks, 1, env, StartRun(clear_block_values(ctx))))

(***************************************************************************)
(* blocks.rs: the builders of blocks and templates                         *)
(***************************************************************************)
Semantic(major, minor, patch) ==
    [kind |-> "Semantic", major |-> major, minor |-> minor, patch |-> patch]
Calver(year, month, day) == [kind |-> "Calver", year |-> year, month |-> month, day |-> day]
Timestamp == [kind |-> "Timestamp"]
Commit == [kind |-> "Commit"]
Counter(name) == [kind |-> "Counter", name |-> name]
Text(value) == [kind |-> "Text", value |-> value]
Date(format) == [kind |-> "Date", format |-> format]
Branch == [kind |-> "Branch"]
BuildNumber == [kind |-> "BuildNumber"]
Versioned(name) == [kind |-> "Versioned", name |-> name]

\* VersionBlock::new, VersionBlock::with_format
NewBlock(name, block_type) == [name |-> name, block_type |-> block_type, format |-> None]
with_format(block, format) == [block EXCEPT !.format = Some(format)]

\* VersionTemplate::new and the builders that follow it
NewTemplate(name) ==
    [name |-> name, blocks |-> <<>>, separator |-> <<".">>, prefix |-> None, suffix |-> None]
with_separator(t, separator) == [t EXCEPT !.separator = separator]
with_prefix(t, prefix) == [t EXCEPT !.prefix = Some(prefix)]
with_suffix(t, suffix) == [t EXCEPT !.suffix = Some(suffix)]
add_block(t, block) == [t EXCEPT !.blocks = Append(@, block)]

(***************************************************************************)
(* composer.rs: VersionComposer                                            *)
(***************************************************************************)
\* VersionComposer::new
NewComposer == [templates |-> EmptyMap, counters |-> EmptyMap, default_template |-> None]

\* an insert that keeps the template a name already has
add_template_once(self, t) ==
    IF t.name \in DOMAIN self.templates THEN self
    ELSE [self EXCEPT !.templates = MapInsert(@, t.name, t)]
add_template(self, t) == [self EXCEPT !.templates = MapInsert(@, t.name, t)]
with_default_template(self, template_name) ==
    [self EXCEPT !.default_template = Some(template_name)]
set_counter(self, name, value) == [self EXCEPT !.counters = MapInsert(@, name, value)]

(* current + 1 on a u32.  At u32::MAX the sum does not fit: a build with   *)
(* overflow checks (the debug profile) panics there, a build without them  *)
(* (the release profile) wraps to 0.                                       *)
AddOne(current, overflow_checks) ==
    IF current # U32Max THEN [panicked |-> FALSE, value |-> U32Succ(current)]
    ELSE IF overflow_checks THEN [panicked |-> TRUE, value |-> current]
    ELSE [panicked |-> FALSE, value |-> U32Zero]

\* the composer and the value returned; a panic leaves the composer as it was
increment_counter(self, name, overflow_checks) ==
    LET new_value == AddOne(UnwrapOr(MapGet(self.counters, name), U32Zero), overflow_checks)
    IN  IF new_value.panicked THEN [composer |-> self, panicked |-> TRUE, value |-> U32Zero]
        ELSE [composer |-> set_counter(self, name, new_value.value),
              panicked |-> FALSE, value |-> new_value.value]

\* a context that is given none of the counters
WithoutCounters(ctx, counters) == ctx
\* for (name, value) in counters { context = context.with_counter(name, *value) }
RECURSIVE WithCounters(_, _)
WithCounters(ctx, counters) ==
    IF DOMAIN counters = {} THEN ctx
    ELSE LET name == CHOOSE k \in DOMAIN counters : TRUE
         IN  WithCounters(with_counter(ctx, name, counters[name]),
                          [k \in DOMAIN counters \ {name} |-> counters[k]])

\* if let Ok(output) = ...output() { if output.status.success() { Some(trimmed stdout) } }
GitField(output) == IF output.kind = "ok" THEN Some(Trim(output.stdout)) ELSE None

build_context(self, env) ==
    [context |->
        [WithCounters(NewContext, self.counters) EXCEPT
            !.current_commit = GitField(env.commit),
            !.current_branch = GitField(env.branch)],
     queries |-> <<Query("rev-parse --short HEAD", env.commit),
                   Query("rev-parse --abbrev-ref HEAD", env.branch)>>]

\* a resolution that falls back to the default template when the name is unknown
ResolveTemplateFallback(self, template_name) ==
    LET named == IF IsSome(template_name) THEN MapGet(self.templates, Unwrap(template_name))
                 ELSE None
        resolved == IF IsSome(named) THEN template_name ELSE self.default_template
    IN  IF ~IsSome(OptionOr(template_name, self.default_template))
        THEN Err("No template specified and no default template set", "")
        ELSE IF ~IsSome(resolved) \/ ~IsSome(MapGet(self.templates, Unwrap(resolved)))
        THEN Err("Template '{}' not found", Unwrap(OptionOr(template_name, resolved)))
        ELSE Ok(self.templates[Unwrap(resolved)])

\* template_name.or(default_template).ok_or(..)?, then templates.get(..).ok_or(..)?
ResolveTemplate(self, template_name) ==
    LET resolved == OptionOr(template_name, self.default_template)
    IN  IF ~IsSome(resolved)
        THEN Err("No template specified and no default template set", "")
        ELSE IF ~IsSome(MapGet(self.templates, Unwrap(resolved)))
        THEN Err("Template '{}' not found", Unwrap(resolved))
        ELSE Ok(self.templates[Unwrap(resolved)])

\* a merge that assigns every field of the provided context, the absent ones too
MergeContextAssign(final_context, ctx) ==
    [final_context EXCEPT
        !.current_version = ctx.current_version,
        !.current_commit = ctx.current_commit,
        !.current_branch = ctx.current_branch,
        !.build_number = ctx.build_number,
        !.counters = WithCounters(final_context, ctx.counters).counters]

\* the "Merge provided context" part of generate_version_with_context
MergeContext(final_context, ctx) ==
    [final_context EXCEPT
        !.current_version = OptionOr(ctx.current_version, @),
        !.current_commit = OptionOr(ctx.current_commit, @),
        !.current_branch = OptionOr(ctx.current_branch, @),
        !.build_number = OptionOr(ctx.build_number, @),
        !.counters = WithCounters(final_context, ctx.counters).counters]

(* What a call of the composer did: the composer after it, its result, the *)
(* template it generated from and the context it handed to                 *)
(* VersionTemplate::generate (None when it did not get there), the git     *)
(* queries it issued and the number of blocks it evaluated, with the       *)
(* segments they gave.  The template is borrowed from self.templates, the  *)
(* context is a local of the call.                                         *)
Unresolved(self, error) ==
    [composer |-> self, result |-> error, ran |-> None, used |-> None, queries |-> <<>>,
     evaluated |-> 0, parts |-> <<>>]
\* a call that stores the counters of the context it generated with
GeneratedStoring(self, t, ctx, queries, g) ==
    [composer |-> [self EXCEPT !.counters = ctx.counters],
     result |-> g.result, ran |-> Some(t), used |-> Some(ctx),
     queries |-> queries \o g.queries, evaluated |-> Len(g.found), parts |-> g.parts]
Generated(self, t, ctx, queries, g) ==
    [composer |-> [self EXCEPT !.templates = MapInsert(@, t.name, g.template)],
     result |-> g.result, ran |-> Some(t), used |-> Some(ctx),
     queries |-> queries \o g.queries, evaluated |-> Len(g.found), parts |-> g.parts]

GenerateWith(self, t, built, env) ==
    Generated(self, t, built.context, built.queries, generate(t, built.context, env))

\* a call that builds its context before it looks for the template
generate_version_context_first(self, template_name, env) ==
    IF ~ResolveTemplate(self, template_name).ok
    THEN [Unresolved(self, ResolveTemplate(self, template_name)) EXCEPT
            !.used = Some(build_context(self, env).context),
            !.queries = build_context(self, env).queries]
    ELSE GenerateWith(self, ResolveTemplate(self, template_name).val,
                      build_context(self, env), env)
generate_version(self, template_name, env) ==
    IF ~ResolveTemplate(self, template_name).ok
    THEN Unresolved(self, ResolveTemplate(self, template_name))
    ELSE GenerateWith(self, ResolveTemplate(self, template_name).val,
                      build_context(self, env), env)

MergedContext(built, ctx) == [built EXCEPT !.context = MergeContext(@, ctx)]

generate_version_with_context(self, template_name, ctx, env) ==
    IF ~ResolveTemplate(self, template_name).ok
    THEN Unresolved(self, ResolveTemplate(self, template_name))
    ELSE GenerateWith(self, ResolveTemplate(self, template_name).val,
                      MergedContext(build_context(self, env), ctx), env)

\* for (name, value) in &config.counters { composer.set_counter(name, *value) }
RECURSIVE SetCounters(_, _)
SetCounters(self, counters) ==
    IF DOMAIN counters = {} THEN self
    ELSE LET name == CHOOSE k \in DOMAIN counters : TRUE
         IN  SetCounters(set_counter(self, name, counters[name]),
                         [k \in DOMAIN counters \ {name} |-> counters[k]])

\* for template in &config.templates { composer.add_template(template.clone()) }
RECURSIVE AddTemplates(_, _)
AddTemplates(self, templates) ==
    IF templates = <<>> THEN self
    ELSE AddTemplates(add_template(self, Head(templates)), Tail(templates))

\* a ComposerConfig is a default_template, a map of counters, a list of templates
from_config(config) ==
    AddTemplates(
        SetCounters(
            [NewComposer EXCEPT
                !.default_template =
                    IF IsSome(config.default_template)
                    THEN Some(Unwrap(config.default_template)) ELSE @],
            config.counters),
        config.templates)

(***************************************************************************)
(* The inputs the model draws from                                         *)
(***************************************************************************)
\* the longest block list of a template
MaxBlocks == 2

NamedTemplates(name, shapes, blocks) ==
    {[shape EXCEPT !.name = name, !.blocks = list] :
        shape \in shapes,
        list \in UNION {[1..n -> blocks] : n \in 0..MaxBlocks}}

\* blocks that read the context only: references, literals, numbers
RefBlocks ==
    {NewBlock("a", Text(<<"x">>)),
     NewBlock("b", Text(<<>>)),
     NewBlock("a", Versioned("a")),
     NewBlock("b", Versioned("a")),
     NewBlock("a", Versioned("b")),
     NewBlock("a", Semantic(None, None, None)),
     NewBlock("b", Counter("build")),
     NewBlock("a", BuildNumber),
     with_format(NewBlock("b", Calver(Some(2025), Some(10), Some(10))), "YYMMDD")}

\* blocks that read git or the clock
EnvBlocks ==
    {NewBlock("a", Commit),
     NewBlock("b", Branch),
     NewBlock("b", Commit),
     with_format(NewBlock("a", Calver(None, None, Some(1))), "YYYY.MM.DD")}

\* blocks for the join: a value with dots, a number, a letter, the empty string
JoinBlocks ==
    {NewBlock("a", Semantic(Some(1), Some(0), Some(0))),
     NewBlock("b", Counter("build")),
     NewBlock("a", Text(<<"x">>)),
     NewBlock("b", Text(<<>>))}

\* separator, prefix and suffix: one choice for each arm of the match in generate
Shapes ==
    {NewTemplate("t"),
     with_prefix(with_separator(NewTemplate("t"), <<"-">>), <<"v">>),
     with_suffix(NewTemplate("t"), <<"+", "s">>),
     with_suffix(with_prefix(with_separator(NewTemplate("t"), <<>>), <<"v">>), <<"+", "s">>)}
PlainShapes ==
    {NewTemplate("t"),
     with_suffix(with_prefix(with_separator(NewTemplate("t"), <<"-">>), <<"v">>), <<"+", "s">>)}

RefTemplates == NamedTemplates("t", PlainShapes, RefBlocks)
EnvTemplates == NamedTemplates("t", PlainShapes, EnvBlocks)
JoinTemplates == NamedTemplates("t", Shapes, JoinBlocks)

Versions == {<<"4", ".", "5", ".", "6">>, <<"1", ".", "0">>}
Commits == {<<"a", "b", "c", "1", "2", "3">>}
Branches == {<<"m", "a", "i", "n">>}
BuildNumbers == {7}
CounterNames == {"build"}
CounterValues == {U32(5)}
\* a value no block of the model produces
SeededValues == {<<"z">>}

Dates == {[year |-> 2026, month |-> 1, day |-> 9], [year |-> 987, month |-> 12, day |-> 31]}
\* git is installed or not for both queries alike; installed, each query succeeds or not
GitAnswers ==
    {[commit |-> c, branch |-> b] :
        c \in {GitOk(<<"d", "e", "f", "4", "\n">>), GitExitNonZero},
        b \in {GitOk(<<"d", "e", "v", "\n">>), GitExitNonZero}}
    \cup {[commit |-> GitSpawnFailed, branch |-> GitSpawnFailed]}
Envs == {[commit |-> g.commit, branch |-> g.branch, now |-> d] : g \in GitAnswers, d \in Dates}
\* for templates that read neither git nor the clock
StillEnvs ==
    {e \in Envs : e.now.year = 2026 /\ e.commit.kind = e.branch.kind /\ e.commit.kind # "exit_nonzero"}

(***************************************************************************)
(* The calls on a template and its context                                 *)
(***************************************************************************)
Built(op, ctx) ==
    /\ context' = ctx
    /\ last' = [op |-> "build"]
    /\ UNCHANGED <<template, composer, info, lib_info, history>>

CallNewContext == Built("new", NewContext)
CallWithVersion == \E v \in Versions : Built("with_version", with_version(context, v))
CallWithCommit == \E c \in Commits : Built("with_commit", with_commit(context, c))
CallWithBranch == \E b \in Branches : Built("with_branch", with_branch(context, b))
CallWithBuildNumber ==
    \E n \in BuildNumbers : Built("with_build_number", with_build_number(context, n))
CallWithCounter ==
    \E name \in CounterNames, v \in CounterValues :
        Built("with_counter", with_counter(context, name, v))
CallSetBlockValue ==
    \E name \in {"a", "b"}, v \in SeededValues :
        Built("set_block_value", set_block_value(context, name, v))

CallGenerate(envs) ==
    \E env \in envs :
        LET g == generate(template, context, env)
        IN  /\ context' = g.context
            /\ template' = g.template
            /\ last' = [op |-> "generate", entry |-> context, result |-> g.result,
                        parts |-> g.parts, found |-> g.found, queries |-> g.queries]
            /\ UNCHANGED <<composer, info, lib_info, history>>

InitWith(templates) ==
    /\ template \in templates
    /\ context = NewContext
    /\ composer = NewComposer
    /\ info = None
    /\ lib_info = None
    /\ history = [parsed |-> None, calls |-> <<>>]
    /\ last = [op |-> "init"]

\* templates of references, literals and numbers
Init == InitWith(RefTemplates)
Next ==
    \/ CallNewContext
    \/ CallWithVersion
    \/ CallWithBuildNumber
    \/ CallWithCounter
    \/ CallSetBlockValue
    \/ CallGenerate(StillEnvs)
Spec == Init /\ [][Next]_vars

\* templates that read git and the clock
EnvInit == InitWith(EnvTemplates)
EnvNext ==
    \/ CallNewContext
    \/ CallWithCommit
    \/ CallWithBranch
    \/ CallSetBlockValue
    \/ CallGenerate(Envs)
EnvSpec == EnvInit /\ [][EnvNext]_vars

\* every shape of template, for the join
JoinInit == InitWith(JoinTemplates)
JoinNext ==
    \/ CallNewContext
    \/ CallWithCounter
    \/ CallGenerate(StillEnvs)
JoinSpec == JoinInit /\ [][JoinNext]_vars

\* Semantic blocks that set no number, one of the three, or all of them, and
\* the texts a context may carry as current_version: plain, with prerelease
\* and build metadata, with the largest u64, one past it, and with two
\* components only
SemanticBlocks ==
    {NewBlock("a", Semantic(None, None, None)),
     NewBlock("a", Semantic(Some(1), None, None)),
     NewBlock("a", Semantic(None, Some(2), None)),
     NewBlock("a", Semantic(None, None, Some(3))),
     NewBlock("a", Semantic(Some(1), Some(2), Some(3)))}
SemanticVersions ==
    {<<"4", ".", "5", ".", "6">>,
     <<"4", ".", "5", ".", "6", "-", "r", "c", ".", "1", "+", "b", "7">>,
     <<"0", ".", "9", ".", "0", "+", "b", "7">>,
     WToString(WMax(W64)) \o <<".", "7", ".", "0">>,
     WToString(<<1>> \o WZero(W64)) \o <<".", "0", ".", "0">>,
     <<"1", ".", "0">>}
CallWithSemanticVersion ==
    \E v \in SemanticVersions : Built("with_version", with_version(context, v))

SemanticInit == InitWith(NamedTemplates("t", {NewTemplate("t")}, SemanticBlocks))
\* a Semantic block reads neither git nor the clock: one answer will do
SemanticNext ==
    \/ CallNewContext
    \/ CallWithSemanticVersion
    \/ CallGenerate({e \in StillEnvs : e.commit.kind = "ok"})
SemanticSpec == SemanticInit /\ [][SemanticNext]_vars

\* templates of up to MaxBlocks blocks that share names; the same templates
\* followed by a reference to a name no block has, where the call fails at
\* the latest; and the same followed by a reference to the shared name
AbortBlocks ==
    {NewBlock("a", Text(<<"x">>)),
     NewBlock("a", BuildNumber),
     NewBlock("b", Counter("build")),
     NewBlock("b", Semantic(None, None, None)),
     NewBlock("a", Versioned("b"))}
AbortTemplates ==
    LET heads == NamedTemplates("t", {NewTemplate("t")}, AbortBlocks)
    IN  heads \cup {add_block(t, NewBlock("c", Versioned("z"))) : t \in heads}
              \cup {add_block(t, NewBlock("c", Versioned("a"))) : t \in heads}

AbortInit == InitWith(AbortTemplates)
AbortNext ==
    \/ CallNewContext
    \/ CallWithVersion
    \/ CallWithBuildNumber
    \/ CallWithCounter
    \/ CallSetBlockValue
    \/ CallGenerate({e \in StillEnvs : e.commit.kind = "ok"})
AbortSpec == AbortInit /\ [][AbortNext]_vars

\* one block of every kind, the Versioned one after a block of its name or not
KindBlocks ==
    {NewBlock("a", Semantic(None, None, None)),
     NewBlock("a", Calver(None, None, None)),
     with_format(NewBlock("a", Timestamp), "unix"),
     with_format(NewBlock("a", Timestamp), "unix_ms"),
     with_format(NewBlock("a", Timestamp), "iso"),
     NewBlock("b", Timestamp),
     NewBlock("b", Commit),
     NewBlock("b", Counter("build")),
     NewBlock("b", Text(<<"x">>)),
     NewBlock("b", Date(<<"%", "Y", "%", "m", "%", "d", "%", "%", "-", "%", "H">>)),
     NewBlock("b", Branch),
     NewBlock("b", BuildNumber),
     NewBlock("b", Versioned("a"))}
\* an instant on a whole second and one seven milliseconds after it
KindEnvs ==
    {[commit |-> g.commit, branch |-> g.branch,
      now |-> [year |-> 2026, month |-> 11, day |-> 3, hour |-> 4, minute |-> 5,
               second |-> 6, milli |-> ms]] :
        g \in {a \in GitAnswers : a.commit.kind = a.branch.kind}, ms \in {0, 7}}

KindInit == InitWith(NamedTemplates("t", {NewTemplate("t")}, KindBlocks))
\* every kind of block, on contexts whose current_version parses or does not
KindNext ==
    \/ CallNewContext
    \/ CallWithVersion
    \/ CallWithCommit
    \/ CallGenerate(KindEnvs)
KindSpec == KindInit /\ [][KindNext]_vars

(***************************************************************************)
(* The calls on a composer                                                 *)
(***************************************************************************)
\* increment_counter is called on a counter below MaxCount or at the top of u32
MaxCount == 7
\* the most fields a caller sets on the context it passes to the composer
MaxFields == 1

TemplateNames == {"t", "u"}
ComposerCounterNames == {"build", "other"}
TopValues == {<<Half - 1, Half - 2>>, U32Max}
CanIncrement(v) == (v[1] = 0 /\ v[2] < MaxCount) \/ v \in TopValues

\* two templates that generate and one whose reference fails
ComposerTemplates ==
    {add_block(add_block(add_block(NewTemplate("t"),
        NewBlock("a", Counter("build"))), NewBlock("b", Commit)), NewBlock("c", Branch)),
     add_block(add_block(with_separator(NewTemplate("u"), <<"-">>),
        NewBlock("a", Semantic(None, None, None))), NewBlock("b", BuildNumber)),
     add_block(add_block(NewTemplate("u"),
        NewBlock("a", Counter("other"))), NewBlock("b", Versioned("c")))}

\* git answers both queries, only the first, or cannot be started
ComposerEnvs == {e \in Envs : e.now.year = 2026 /\ e.commit.kind # "exit_nonzero"}

\* the number of fields of a context that a caller has set
FieldsSet(ctx) ==
    Len(ctx.current_version) + Len(ctx.current_commit) + Len(ctx.current_branch)
        + Len(ctx.build_number)
OverrideContexts ==
    {ctx \in
        [current_version : OptionOf({<<"4", ".", "5", ".", "6">>}),
         current_commit : OptionOf(Commits),
         current_branch : OptionOf(Branches),
         build_number : OptionOf(BuildNumbers),
         counters : {EmptyMap, [k \in {"build", "extra"} |-> IF k = "build" THEN U32(9) ELSE U32(1)]},
         block_values : {EmptyMap}] :
        FieldsSet(ctx) <= MaxFields}

\* a panic ends the process
Panicked == last.op = "increment_counter" /\ last.panicked

Composed(self) ==
    /\ composer' = self
    /\ last' = [op |-> "build"]
    /\ UNCHANGED <<template, context, info, lib_info, history>>

CallAddTemplate == \E t \in ComposerTemplates : Composed(add_template(composer, t))
CallWithDefaultTemplate ==
    \E name \in TemplateNames : Composed(with_default_template(composer, name))
CallSetCounter(values) ==
    \E name \in ComposerCounterNames, v \in values :
        ~Panicked /\ Composed(set_counter(composer, name, v))

CallIncrementCounter ==
    \E name \in ComposerCounterNames, overflow_checks \in BOOLEAN :
        LET inc == increment_counter(composer, name, overflow_checks)
        IN  /\ ~Panicked
            /\ CanIncrement(UnwrapOr(MapGet(composer.counters, name), U32Zero))
            /\ composer' = inc.composer
            /\ last' = [op |-> "increment_counter", name |-> name, entry |-> composer,
                        panicked |-> inc.panicked, returned |-> inc.value]
            /\ UNCHANGED <<template, context, info, lib_info, history>>

Called(op, template_name, override, did) ==
    /\ last' = [op |-> op, template_name |-> template_name, override |-> override,
                entry |-> composer, result |-> did.result, ran |-> did.ran,
                used |-> did.used,
                queries |-> did.queries, evaluated |-> did.evaluated, parts |-> did.parts]
    /\ composer' = did.composer
    /\ UNCHANGED <<template, context, info, lib_info, history>>

CallGenerateVersion ==
    \E template_name \in OptionOf(TemplateNames), env \in ComposerEnvs :
        Called("generate_version", template_name, None,
               generate_version(composer, template_name, env))

CallGenerateVersionWithContext ==
    \E template_name \in OptionOf(TemplateNames), ctx \in OverrideContexts,
       env \in ComposerEnvs :
        Called("generate_version_with_context", template_name, Some(ctx),
               generate_version_with_context(composer, template_name, ctx, env))

ComposerInit ==
    /\ template = NewTemplate("t")
    /\ context = NewContext
    /\ composer = NewComposer
    /\ info = None
    /\ lib_info = None
    /\ history = [parsed |-> None, calls |-> <<>>]
    /\ last = [op |-> "init"]

\* the counters of a composer
CounterNext ==
    \/ CallSetCounter({U32(5)} \cup TopValues)
    \/ CallIncrementCounter
CounterSpec == ComposerInit /\ [][CounterNext]_vars

\* templates of counters: two counters side by side, a counter after a block
\* that fails, a counter before one
RenderTemplates ==
    {add_block(add_block(NewTemplate("t"),
        NewBlock("a", Counter("build"))), NewBlock("b", Counter("other"))),
     add_block(add_block(with_prefix(with_separator(NewTemplate("t"), <<"-">>), <<"v">>),
        NewBlock("a", Counter("other"))), NewBlock("b", Versioned("c"))),
     add_block(add_block(NewTemplate("u"),
        NewBlock("a", Text(<<"x">>))), NewBlock("b", Counter("build")))}
CallAddRenderTemplate == \E t \in RenderTemplates : Composed(add_template(composer, t))

\* the counters of a composer as the templates render them
RenderNext ==
    \/ CallAddRenderTemplate
    \/ CallSetCounter({U32(5)} \cup TopValues)
    \/ CallIncrementCounter
    \/ CallGenerateVersion
RenderSpec == ComposerInit /\ [][RenderNext]_vars

\* the templates of a composer and the contexts it generates with
ComposerNext ==
    \/ CallAddTemplate
    \/ CallWithDefaultTemplate
    \/ CallSetCounter({U32(5)})
    \/ CallGenerateVersion
    \/ CallGenerateVersionWithContext
ComposerSpec == ComposerInit /\ [][ComposerNext]_vars

\* the longest list of templates of a ComposerConfig
MaxTemplates == 3

\* two names, two templates of each
ConfigTemplates ==
    {NewTemplate("t"),
     add_block(NewTemplate("t"), NewBlock("a", Counter("build"))),
     add_block(NewTemplate("semantic"), NewBlock("version", Semantic(None, None, None))),
     with_separator(NewTemplate("semantic"), <<"-">>)}
ComposerConfigs ==
    [default_template : OptionOf({"semantic", "none"}),
     counters : {EmptyMap, [k \in {"build"} |-> U32(10)],
                 [k \in {"build", "other"} |-> IF k = "build" THEN U32Max ELSE U32Zero]},
     templates : UNION {[1..n -> ConfigTemplates] : n \in 0..MaxTemplates}]

ConfigInit ==
    /\ template = NewTemplate("t")
    /\ context = NewContext
    /\ composer = NewComposer
    /\ info = None
    /\ lib_info = None
    /\ history = [parsed |-> None, calls |-> <<>>]
    /\ last \in [op : {"config"}, config : ComposerConfigs]

CallFromConfig ==
    /\ last.op = "config"
    /\ composer' = from_config(last.config)
    /\ last' = [op |-> "from_config", config |-> last.config]
    /\ UNCHANGED <<template, context, info, lib_info, history>>

CallAddTemplateTo ==
    \E t \in ConfigTemplates :
        /\ last.op # "config"
        /\ composer' = add_template(composer, t)
        /\ last' = [op |-> "add_template", template |-> t, entry |-> composer]
        /\ UNCHANGED <<template, context, info, lib_info, history>>

\* a composer made from a configuration, and templates added to it
ConfigNext ==
    \/ CallFromConfig
    \/ CallAddTemplateTo
ConfigSpec == ConfigInit /\ [][ConfigNext]_vars

(***************************************************************************)
(* version.rs: a VersionInfo is a scheme name, a VersionType and an        *)
(* optional channel.  The numbers of Calver and Build are u32, those of    *)
(* Semantic and Monotonic u64, all held as 16-bit limbs.                   *)
(***************************************************************************)
\* chrono's %Y%m%d%H%M%S and %Y-%m-%dT%H:%M:%S of Utc::now()
current_timestamp(now) ==
    ZeroPad(NatToString(now.year), 4) \o ZeroPad(NatToString(now.month), 2)
        \o ZeroPad(NatToString(now.day), 2) \o ZeroPad(NatToString(now.hour), 2)
        \o ZeroPad(NatToString(now.minute), 2) \o ZeroPad(NatToString(now.second), 2)
current_datetime(now) ==
    ZeroPad(NatToString(now.year), 4) \o <<"-">> \o ZeroPad(NatToString(now.month), 2)
        \o <<"-">> \o ZeroPad(NatToString(now.day), 2) \o <<"T">>
        \o ZeroPad(NatToString(now.hour), 2) \o <<":">> \o ZeroPad(NatToString(now.minute), 2)
        \o <<":">> \o ZeroPad(NatToString(now.second), 2)
current_commit(git) ==
    IF git.kind = "spawn_failed" THEN Err("io::Error", "")
    ELSE IF git.kind = "ok" THEN Ok(Trim(git.stdout))
    ELSE Err("Failed to get git commit", "")

CalverNew(parts) ==
    IF Len(parts) < 2 THEN Err("Calver version must have at least YY.MM", "")
    ELSE IF \E i \in 1..(IF Len(parts) < 3 THEN 2 ELSE 3) : ~IsSome(ParseUnsigned(parts[i], W32))
    THEN Err("ParseIntError", "")
    ELSE Ok([kind |-> "Calver",
             year |-> Unwrap(ParseUnsigned(parts[1], W32)),
             month |-> Unwrap(ParseUnsigned(parts[2], W32)),
             day |-> IF Len(parts) < 3 THEN Wide(1, W32)
                     ELSE Unwrap(ParseUnsigned(parts[3], W32))])
BuildNew(parts) ==
    IF Len(parts) # 4 THEN Err("Build version must be in format major.minor.patch.build", "")
    ELSE IF \E i \in 1..4 : ~IsSome(ParseUnsigned(parts[i], W32)) THEN Err("ParseIntError", "")
    ELSE Ok([kind |-> "Build",
             major |-> Unwrap(ParseUnsigned(parts[1], W32)),
             minor |-> Unwrap(ParseUnsigned(parts[2], W32)),
             patch |-> Unwrap(ParseUnsigned(parts[3], W32)),
             build |-> Unwrap(ParseUnsigned(parts[4], W32))])
NewSemanticType(version, scheme, env) ==
    IF SemverParse(version).ok
    THEN Ok([kind |-> "Semantic", v |-> SemverParse(version).val])
    ELSE SemverParse(version)
\* the match on scheme in VersionInfo::new
NewVersionType(version, scheme, env) ==
    CASE scheme = "calver" -> CalverNew(SplitOn(version, "."))
      [] scheme = "timestamp" ->
            Ok([kind |-> "Timestamp",
                s |-> IF version = <<>> THEN current_timestamp(env.now) ELSE version])
      [] scheme = "commit" ->
            IF version # <<>> THEN Ok([kind |-> "Commit", s |-> version])
            ELSE IF current_commit(env.commit).ok
            THEN Ok([kind |-> "Commit", s |-> current_commit(env.commit).val])
            ELSE current_commit(env.commit)
      [] scheme = "build" -> BuildNew(SplitOn(version, "."))
      [] scheme = "monotonic" ->
            IF IsSome(ParseUnsigned(version, W64))
            THEN Ok([kind |-> "Monotonic", n |-> Unwrap(ParseUnsigned(version, W64))])
            ELSE Err("ParseIntError", "")
      [] scheme = "datetime" ->
            Ok([kind |-> "Datetime",
                s |-> IF version = <<>> THEN current_datetime(env.now) ELSE version])
      [] scheme = "pattern" -> Ok([kind |-> "Pattern", s |-> version])
      [] OTHER ->
            IF SemverParse(version).ok
            THEN Ok([kind |-> "Semantic", v |-> SemverParse(version).val])
            ELSE SemverParse(version)

new(version, scheme, channel, env) ==
    IF NewVersionType(version, scheme, env).ok
    THEN Ok([scheme |-> scheme, version |-> NewVersionType(version, scheme, env).val,
             channel |-> channel])
    ELSE NewVersionType(version, scheme, env)

\* x += 1 on a u32 or u64: at the largest value a build with overflow checks
\* panics and a build without them wraps to 0
Overflows(u) == u = WMax(Len(u))
PlusOne(u) == IF Overflows(u) THEN WZero(Len(u)) ELSE WSucc(u)
\* the arms of the three bumps that are the same in each
BumpOther(t, env) ==
    CASE t.kind = "Timestamp" -> [t EXCEPT !.s = current_timestamp(env.now)]
      [] t.kind = "Commit" -> [t EXCEPT !.s = IF current_commit(env.commit).ok
                                                 THEN current_commit(env.commit).val
                                                 ELSE <<"u", "n", "k", "n", "o", "w", "n">>]
      [] t.kind = "Monotonic" -> [t EXCEPT !.n = PlusOne(@)]
      [] t.kind = "Datetime" -> [t EXCEPT !.s = current_datetime(env.now)]
      [] t.kind = "Pattern" -> [t EXCEPT !.s = @ \o <<"-", "u", "p", "d", "a", "t", "e", "d">>]

bump_major(self, env) ==
    [self EXCEPT !.version =
        CASE @.kind = "Calver" ->
                [@ EXCEPT !.year = PlusOne(@), !.month = Wide(1, W32), !.day = Wide(1, W32)]
          [] @.kind = "Semantic" ->
                [@ EXCEPT !.v.major = PlusOne(@), !.v.minor = WZero(W64),
                          !.v.patch = WZero(W64), !.v.pre = None, !.v.build = None]
          [] @.kind = "Build" ->
                [@ EXCEPT !.major = PlusOne(@), !.minor = WZero(W32), !.patch = WZero(W32)]
          [] OTHER -> BumpOther(@, env)]
bump_minor(self, env) ==
    [self EXCEPT !.version =
        CASE @.kind = "Calver" -> [@ EXCEPT !.month = PlusOne(@), !.day = Wide(1, W32)]
          [] @.kind = "Semantic" ->
                [@ EXCEPT !.v.minor = PlusOne(@), !.v.patch = WZero(W64),
                          !.v.pre = None, !.v.build = None]
          [] @.kind = "Build" -> [@ EXCEPT !.minor = PlusOne(@), !.patch = WZero(W32)]
          [] OTHER -> BumpOther(@, env)]
bump_patch(self, env) ==
    [self EXCEPT !.version =
        CASE @.kind = "Calver" -> [@ EXCEPT !.day = PlusOne(@)]
          [] @.kind = "Semantic" ->
                [@ EXCEPT !.v.patch = PlusOne(@), !.v.pre = None, !.v.build = None]
          [] @.kind = "Build" -> [@ EXCEPT !.patch = PlusOne(@), !.build = WZero(W32)]
          [] OTHER -> BumpOther(@, env)]

\* the number a bump adds 1 to, none for the schemes that hold a string
Counted(t, bump) ==
    CASE t.kind = "Calver" ->
            Some(IF bump = "major" THEN t.year ELSE IF bump = "minor" THEN t.month ELSE t.day)
      [] t.kind = "Semantic" ->
            Some(IF bump = "major" THEN t.v.major
                 ELSE IF bump = "minor" THEN t.v.minor ELSE t.v.patch)
      [] t.kind = "Build" ->
            Some(IF bump = "major" THEN t.major ELSE IF bump = "minor" THEN t.minor ELSE t.patch)
      [] t.kind = "Monotonic" -> Some(t.n)
      [] OTHER -> None


\* Prerelease::new and BuildMetadata::new give EMPTY for the empty string,
\* and unwrap_or gives EMPTY for a string they reject
set_prerelease(self, pre) ==
    IF self.version.kind = "Semantic"
    THEN [self EXCEPT !.version.v.pre =
                IF pre # <<>> /\ AllPrereleaseIds(pre) THEN Some(pre) ELSE None]
    ELSE self
set_build(self, build) ==
    IF self.version.kind = "Semantic"
    THEN [self EXCEPT !.version.v.build =
                IF build # <<>> /\ AllBuildIds(build) THEN Some(build) ELSE None]
    ELSE self

\* impl Display: the base string of each variant, then the channel
BaseVersion(t) ==
    CASE t.kind = "Calver" ->
            ZeroPad(WToString(t.year), 2) \o <<".">> \o ZeroPad(WToString(t.month), 2)
                \o <<".">> \o ZeroPad(WToString(t.day), 2)
      [] t.kind = "Semantic" -> SemverToString(t.v)
      [] t.kind = "Build" ->
            WToString(t.major) \o <<".">> \o WToString(t.minor) \o <<".">>
                \o WToString(t.patch) \o <<".">> \o WToString(t.build)
      [] t.kind = "Monotonic" -> WToString(t.n)
      [] OTHER -> t.s
AppendChannel(t, base, channel) == base \o <<"-">> \o channel
WithChannel(t, base, channel) ==
    CASE channel = <<"s", "t", "a", "b", "l", "e">> -> base
      [] channel = <<"b", "e", "t", "a">> ->
            IF t.kind = "Semantic"
            THEN IF t.v.pre = None THEN base \o <<"-", "b", "e", "t", "a", ".", "1">> ELSE base
            ELSE base \o <<"-", "b", "e", "t", "a">>
      [] channel = <<"n", "i", "g", "h", "t", "l", "y">> ->
            IF t.kind \in {"Timestamp", "Commit"} THEN base
            ELSE base \o <<"-", "n", "i", "g", "h", "t", "l", "y">>
      [] OTHER -> base \o <<"-">> \o channel
to_string(self) ==
    IF IsSome(self.channel)
    THEN WithChannel(self.version, BaseVersion(self.version), Unwrap(self.channel))
    ELSE BaseVersion(self.version)

(***************************************************************************)
(* The calls on a VersionInfo.  info is the value a successful new made,   *)
(* history.parsed that value as new made it and history.calls the calls    *)
(* made on it since, each with the value it left.                          *)
(***************************************************************************)
MaxCalls == 3

Instants ==
    {[year |-> 2026, month |-> 11, day |-> 3, hour |-> 4, minute |-> 5, second |-> s] :
        s \in {6, 7}}
VersionEnvs ==
    {[commit |-> c, now |-> d] :
        c \in {GitOk(<<"d", "e", "f", "4", "\n">>), GitExitNonZero, GitSpawnFailed},
        d \in Instants}
Channels ==
    OptionOf({<<"s", "t", "a", "b", "l", "e">>, <<"b", "e", "t", "a">>,
              <<"n", "i", "g", "h", "t", "l", "y">>, <<"r", "c">>, <<>>})
\* neither git nor the clock matters to a value that new was given as text
\* and that no bump regenerates
StillVersionEnvs == {e \in VersionEnvs : e.commit.kind = "ok" /\ e.now.second = 6}

\* a bump that panicked ended the process
Crashed == last.op = "bump" /\ last.panicked

\* the state VersionInfo::new leaves: the value, or none when it failed
Constructed(i, channel, made, value, calls, record) ==
    /\ value = IF made.ok THEN Some(made.val) ELSE None
    /\ calls = [parsed |-> IF made.ok THEN Some(made.val) ELSE None, calls |-> <<>>]
    /\ record = [op |-> "new", version |-> i.version, scheme |-> i.scheme,
                 channel |-> channel, result |-> made]

NewAmong(inputs, channels, envs) ==
    /\ template = NewTemplate("t")
    /\ context = NewContext
    /\ composer = NewComposer
    /\ lib_info = None
    /\ \E i \in inputs, channel \in channels, env \in envs :
            Constructed(i, channel, new(i.version, i.scheme, channel, env), info, history, last)

\* new applied to the arguments at hand
CallNew(envs) ==
    \E env \in envs :
        /\ last.op = "arguments"
        /\ Constructed(last, last.channel, new(last.version, last.scheme, last.channel, env),
                       info', history', last')
        /\ UNCHANGED <<template, context, composer, lib_info>>

Mutated(op, arg, panicked, self) ==
    /\ IsSome(info)
    /\ ~Crashed
    /\ Len(history.calls) < MaxCalls
    /\ info' = IF panicked THEN info ELSE Some(self)
    /\ history' = [history EXCEPT !.calls = Append(@, [op |-> op, arg |-> arg, value |-> info'])]
    /\ last' = [op |-> op, arg |-> arg, entry |-> Unwrap(info), panicked |-> panicked]
    /\ UNCHANGED <<template, context, composer, lib_info>>

Bumped(bump, overflow_checks, self) ==
    Mutated("bump", bump,
            /\ overflow_checks
            /\ IsSome(Counted(Unwrap(info).version, bump))
            /\ Overflows(Unwrap(Counted(Unwrap(info).version, bump))),
            self)

CallBumpMajor(envs) ==
    \E env \in envs, overflow_checks \in BOOLEAN :
        IsSome(info) /\ Bumped("major", overflow_checks, bump_major(Unwrap(info), env))
CallBumpMinor(envs) ==
    \E env \in envs, overflow_checks \in BOOLEAN :
        IsSome(info) /\ Bumped("minor", overflow_checks, bump_minor(Unwrap(info), env))
CallBumpPatch(envs) ==
    \E env \in envs, overflow_checks \in BOOLEAN :
        IsSome(info) /\ Bumped("patch", overflow_checks, bump_patch(Unwrap(info), env))

\* one that Prerelease::new accepts and one it rejects (a numeric identifier
\* with a leading zero)
Prereleases == {<<"r", "c", ".", "1">>, <<"0", "1">>}
BuildMetadatas == {<<"b", "7">>}
CallSetPrerelease ==
    \E pre \in Prereleases :
        IsSome(info) /\ Mutated("set_prerelease", pre, FALSE, set_prerelease(Unwrap(info), pre))
CallSetBuild ==
    \E build \in BuildMetadatas :
        IsSome(info) /\ Mutated("set_build", build, FALSE, set_build(Unwrap(info), build))

CallToString ==
    /\ IsSome(info)
    /\ ~Crashed
    /\ last' = [op |-> "to_string", entry |-> Unwrap(info), returned |-> to_string(Unwrap(info))]
    /\ UNCHANGED <<template, context, composer, info, lib_info, history>>

\* a version text under a scheme name
Input(scheme, version) == [scheme |-> scheme, version |-> version]
TopU32 == WToString(WMax(W32))
TopU64 == WToString(WMax(W64))
\* values of every scheme, with and without prerelease and build
\* metadata, ordinary numbers and the largest their fields hold, a month 12
\* and a day 31, and a scheme name that new does not know
VersionInputs ==
    {Input("semantic", <<"1", ".", "2", ".", "3">>),
     Input("semantic", <<"1", ".", "2", ".", "3", "-", "r", "c", ".", "1", "+", "b", "7">>),
     Input("semantic", TopU64 \o <<".">> \o TopU64 \o <<".">> \o TopU64),
     Input("foo", <<"0", ".", "0", ".", "9", "+", "b", "7">>),
     Input("calver", <<"2", "5", ".", "1", "2", ".", "3", "1">>),
     Input("calver", <<"2", "5", ".", "1", "0">>),
     Input("calver", TopU32 \o <<".">> \o TopU32 \o <<".">> \o TopU32),
     Input("build", <<"1", ".", "2", ".", "3", ".", "4">>),
     Input("build", TopU32 \o <<".">> \o TopU32 \o <<".">> \o TopU32 \o <<".", "9">>),
     Input("monotonic", <<"4", "1">>),
     Input("monotonic", TopU64),
     Input("timestamp", <<>>),
     Input("commit", <<"a", "b", "c", "1", "2", "3">>),
     Input("datetime", <<"2", "0", "2", "5">>),
     Input("pattern", <<"v", "1">>)}

VersionInit == NewAmong(VersionInputs, Channels, StillVersionEnvs)
VersionNext ==
    \/ CallBumpMajor(VersionEnvs)
    \/ CallBumpMinor(VersionEnvs)
    \/ CallBumpPatch(VersionEnvs)
    \/ CallSetPrerelease
    \/ CallSetBuild
    \/ CallToString
VersionSpec == VersionInit /\ [][VersionNext]_vars


\* texts for new to parse or reject, well formed and not, under each scheme
\* that reads numbers
Texts ==
    {<<>>, <<"x">>, <<"4", "2">>, <<"+", "7">>, <<"-", "1">>, <<"0", "0", "7">>, <<"4", ".", "2">>,
     <<"2", "5", ".", "1", "0">>, <<"2", "5", ".", "x">>, <<"x", ".", "1", "0">>,
     <<"2", "5", ".", ".", "1">>, <<"2", "5", ".", "1", "0", ".", "0", "1">>,
     <<"2", "5", ".", "1", "0", ".", "x">>, <<"1", ".", "2", ".", "3">>,
     <<"0", "1", ".", "2", ".", "3">>, <<"1", ".", "2", ".", "3", "-">>,
     <<"1", ".", "2", ".", "3", "-", "r", "c", ".", "1", "+", "b", "7">>,
     <<"1", ".", "2", ".", "3", "-", "0", "1">>, <<"1", ".", "2", ".", "3", "+", "b", "_">>,
     <<"1", ".", "2", ".", "3", ".", "4">>, <<"1", ".", "2", ".", "3", ".", "x">>,
     <<"1", ".", "2", ".", "3", ".", "4", ".", "5">>,
     <<"2", "5", ".", "1", "0", ".", "0", "1", ".", "x", "y", "z">>,
     TopU32, TopU64, WToString(<<1>> \o WZero(W64)),
     TopU32 \o <<".">> \o TopU32, WToString(<<1>> \o WZero(W32)) \o <<".", "1">>,
     TopU64 \o <<".", "0", ".", "0">>, WToString(<<1>> \o WZero(W64)) \o <<".", "0", ".", "0">>}
ParseInputs ==
    {Input(scheme, version) :
        scheme \in {"semantic", "calver", "build", "monotonic", "pattern", "commit"},
        version \in Texts}

ParseInit ==
    /\ template = NewTemplate("t")
    /\ context = NewContext
    /\ composer = NewComposer
    /\ info = None
    /\ lib_info = None
    /\ history = [parsed |-> None, calls |-> <<>>]
    /\ \E i \in ParseInputs, channel \in {None, Some(<<"b", "e", "t", "a">>)} :
            last = [op |-> "arguments", version |-> i.version, scheme |-> i.scheme,
                    channel |-> channel]
ParseNext ==
    \/ CallNew(VersionEnvs)
    \/ CallToString
ParseSpec == ParseInit /\ [][ParseNext]_vars

(***************************************************************************)
(* version-it-version/src/lib.rs: the VersionInfo of that crate.  Its      *)
(* Semantic holds three u32 and neither prerelease nor build metadata; its *)
(* to_string ignores the channel.                                          *)
(***************************************************************************)
\* `semver.major as u32`: the low 32 bits of a u64
AsU32(u) == SubSeq(u, Len(u) - W32 + 1, Len(u))

\* the arms of new that split on '.' and parse n numbers: Calver, Build,
\* SemanticCommit
LibNumbers(parts, n, error) ==
    IF Len(parts) # n THEN Err(error, "")
    ELSE IF \E i \in 1..n : ~IsSome(ParseUnsigned(parts[i], W32))
    THEN Err("Invalid number", "")
    ELSE Ok([i \in 1..n |-> Unwrap(ParseUnsigned(parts[i], W32))])

LibVersionType(version, scheme) ==
    CASE scheme = "semantic" ->
            IF ~SemverParse(version).ok THEN Err("Invalid semantic version '{}': {}", version)
            ELSE Ok([kind |-> "Semantic",
                     major |-> AsU32(SemverParse(version).val.major),
                     minor |-> AsU32(SemverParse(version).val.minor),
                     patch |-> AsU32(SemverParse(version).val.patch)])
      [] scheme = "calver" ->
            LET n == LibNumbers(SplitOn(version, "."), 3,
                                "Invalid calendar version '{}': expected format YY.MM.DD")
            IN  IF ~n.ok THEN n
                ELSE Ok([kind |-> "Calver", year |-> n.val[1], month |-> n.val[2],
                         day |-> n.val[3]])
      [] scheme = "timestamp" -> Ok([kind |-> "Timestamp", s |-> version])
      [] scheme = "commit" -> Ok([kind |-> "Commit", s |-> version])
      [] scheme = "build" ->
            LET n == LibNumbers(SplitOn(version, "."), 4,
                        "Invalid build version '{}': expected format major.minor.patch.build")
            IN  IF ~n.ok THEN n
                ELSE Ok([kind |-> "Build", major |-> n.val[1], minor |-> n.val[2],
                         patch |-> n.val[3], build |-> n.val[4]])
      [] scheme = "monotonic" ->
            IF IsSome(ParseUnsigned(version, W64))
            THEN Ok([kind |-> "Monotonic", n |-> Unwrap(ParseUnsigned(version, W64))])
            ELSE Err("Invalid monotonic version: {}", version)
      [] scheme = "datetime" -> Ok([kind |-> "Datetime", s |-> version])
      [] scheme = "pattern" -> Ok([kind |-> "Pattern", s |-> version])
      [] scheme = "semantic-commit" ->
            LET n == LibNumbers(SplitOn(version, "."), 3,
                "Invalid semantic-commit version '{}': expected format major.minor.commit")
            IN  IF ~n.ok THEN n
                ELSE Ok([kind |-> "SemanticCommit", major |-> n.val[1], minor |-> n.val[2],
                         commit_count |-> n.val[3]])
      [] OTHER -> Err("Unsupported versioning scheme: {}", scheme)

lib_new(version, scheme, channel) ==
    IF LibVersionType(version, scheme).ok
    THEN Ok([scheme |-> scheme, version |-> LibVersionType(version, scheme).val,
             channel |-> channel])
    ELSE LibVersionType(version, scheme)

lib_to_string(self) ==
    LET t == self.version
    IN  CASE t.kind = "Semantic" ->
                WToString(t.major) \o <<".">> \o WToString(t.minor) \o <<".">>
                    \o WToString(t.patch)
          [] t.kind = "Calver" ->
                ZeroPad(WToString(t.year), 2) \o <<".">> \o ZeroPad(WToString(t.month), 2)
                    \o <<".">> \o ZeroPad(WToString(t.day), 2)
          [] t.kind = "Build" ->
                WToString(t.major) \o <<".">> \o WToString(t.minor) \o <<".">>
                    \o WToString(t.patch) \o <<".">> \o WToString(t.build)
          [] t.kind = "Monotonic" -> WToString(t.n)
          [] t.kind = "SemanticCommit" ->
                WToString(t.major) \o <<".">> \o WToString(t.minor) \o <<".">>
                    \o WToString(t.commit_count)
          [] OTHER -> t.s

\* output().ok(), then from_utf8(stdout).ok(), trimmed, else "unknown": the
\* exit status is not looked at
current_commit_short(git) ==
    IF git.kind = "spawn_failed" THEN <<"u", "n", "k", "n", "o", "w", "n">>
    ELSE Trim(git.stdout)

lib_bump_major(self) ==
    [self EXCEPT !.version =
        CASE @.kind = "Semantic" ->
                [@ EXCEPT !.major = PlusOne(@), !.minor = WZero(W32), !.patch = WZero(W32)]
          [] @.kind = "Calver" -> [@ EXCEPT !.year = PlusOne(@)]
          [] @.kind \in {"Build", "SemanticCommit"} -> [@ EXCEPT !.major = PlusOne(@)]
          [] OTHER -> @]
lib_bump_minor(self) ==
    [self EXCEPT !.version =
        CASE @.kind = "Semantic" -> [@ EXCEPT !.minor = PlusOne(@), !.patch = WZero(W32)]
          [] @.kind = "Calver" -> [@ EXCEPT !.month = PlusOne(@), !.day = Wide(1, W32)]
          [] @.kind = "Build" -> [@ EXCEPT !.minor = PlusOne(@), !.build = WZero(W32)]
          [] @.kind = "SemanticCommit" ->
                [@ EXCEPT !.minor = PlusOne(@), !.commit_count = WZero(W32)]
          [] OTHER -> @]
lib_bump_patch(self, env) ==
    [self EXCEPT !.version =
        CASE @.kind = "Semantic" -> [@ EXCEPT !.patch = PlusOne(@)]
          [] @.kind = "Calver" -> [@ EXCEPT !.day = PlusOne(@)]
          [] @.kind = "Build" -> [@ EXCEPT !.patch = PlusOne(@), !.build = WZero(W32)]
          [] @.kind = "Timestamp" -> [@ EXCEPT !.s = current_timestamp(env.now)]
          [] @.kind = "Commit" -> [@ EXCEPT !.s = current_commit_short(env.commit)]
          [] @.kind = "SemanticCommit" -> [@ EXCEPT !.commit_count = PlusOne(@)]
          [] OTHER -> @]

\* the number a bump of this crate adds 1 to, none where it adds nothing
LibCounted(t, bump) ==
    CASE t.kind = "Semantic" ->
            Some(IF bump = "major" THEN t.major ELSE IF bump = "minor" THEN t.minor
                 ELSE t.patch)
      [] t.kind = "Calver" ->
            Some(IF bump = "major" THEN t.year ELSE IF bump = "minor" THEN t.month ELSE t.day)
      [] t.kind = "Build" ->
            Some(IF bump = "major" THEN t.major ELSE IF bump = "minor" THEN t.minor
                 ELSE t.patch)
      [] t.kind = "SemanticCommit" ->
            Some(IF bump = "major" THEN t.major ELSE IF bump = "minor" THEN t.minor
                 ELSE t.commit_count)
      [] OTHER -> None

(***************************************************************************)
(* The same calls made on the VersionInfo of either crate                  *)
(***************************************************************************)
\* texts that both crates accept and texts that one of them refuses
TwinInputs ==
    {Input("semantic", <<"1", ".", "2", ".", "3">>),
     Input("semantic", <<"1", ".", "2", ".", "3", "-", "r", "c", ".", "1", "+", "b", "7">>),
     Input("semantic", WToString(<<1>> \o WZero(W32)) \o <<".", "0", ".", "0">>),
     Input("semantic", <<"1", ".", "2">>),
     Input("calver", <<"2", "5", ".", "1", "0", ".", "0", "1">>),
     Input("calver", <<"2", "5", ".", "1", "0">>),
     Input("build", <<"1", ".", "2", ".", "3", ".", "4">>),
     Input("monotonic", <<"4", "1">>),
     Input("pattern", <<"v", "1">>),
     Input("timestamp", <<"2", "0", "2", "5">>),
     Input("timestamp", <<>>),
     Input("commit", <<"a", "b", "c", "1", "2", "3">>),
     Input("datetime", <<"2", "0", "2", "5">>),
     Input("semantic-commit", <<"1", ".", "2", ".", "3">>),
     Input("foo", <<"1", ".", "2", ".", "3">>)}

\* the same arguments given to new of either crate, without a channel
TwinInit ==
    /\ template = NewTemplate("t")
    /\ context = NewContext
    /\ composer = NewComposer
    /\ \E i \in TwinInputs, env \in StillVersionEnvs :
            /\ Constructed(i, None, new(i.version, i.scheme, None, env), info, history, last)
            /\ lib_info = IF lib_new(i.version, i.scheme, None).ok
                          THEN Some(lib_new(i.version, i.scheme, None).val) ELSE None

\* one crate's value crashed in a bump, or each crate's did
TwinCrashed == last.op = "bump" /\ (last.panicked \/ last.lib_panicked)

\* the same bump on either value, in builds with the same overflow checks
TwinBumped(bump, overflow_checks, self, lib_self) ==
    LET panicked == /\ overflow_checks
                    /\ IsSome(Counted(Unwrap(info).version, bump))
                    /\ Overflows(Unwrap(Counted(Unwrap(info).version, bump)))
        lib_panicked == /\ overflow_checks
                        /\ IsSome(LibCounted(Unwrap(lib_info).version, bump))
                        /\ Overflows(Unwrap(LibCounted(Unwrap(lib_info).version, bump)))
    IN  /\ ~TwinCrashed
        /\ Len(history.calls) < MaxCalls
        /\ info' = IF panicked THEN info ELSE Some(self)
        /\ lib_info' = IF lib_panicked THEN lib_info ELSE Some(lib_self)
        /\ history' = [history EXCEPT
                            !.calls = Append(@, [op |-> "bump", arg |-> bump, value |-> info'])]
        /\ last' = [op |-> "bump", arg |-> bump, entry |-> Unwrap(info),
                    panicked |-> panicked, lib_panicked |-> lib_panicked]
        /\ UNCHANGED <<template, context, composer>>

CallBothBumpMajor ==
    \E env \in StillVersionEnvs, overflow_checks \in BOOLEAN :
        /\ IsSome(info) /\ IsSome(lib_info)
        /\ TwinBumped("major", overflow_checks, bump_major(Unwrap(info), env),
                      lib_bump_major(Unwrap(lib_info)))
CallBothBumpMinor ==
    \E env \in StillVersionEnvs, overflow_checks \in BOOLEAN :
        /\ IsSome(info) /\ IsSome(lib_info)
        /\ TwinBumped("minor", overflow_checks, bump_minor(Unwrap(info), env),
                      lib_bump_minor(Unwrap(lib_info)))
CallBothBumpPatch ==
    \E env \in StillVersionEnvs, overflow_checks \in BOOLEAN :
        /\ IsSome(info) /\ IsSome(lib_info)
        /\ TwinBumped("patch", overflow_checks, bump_patch(Unwrap(info), env),
                      lib_bump_patch(Unwrap(lib_info), env))

CallBothToString ==
    /\ IsSome(info) /\ IsSome(lib_info)
    /\ ~TwinCrashed
    /\ last' = [op |-> "to_string", entry |-> Unwrap(info), lib_entry |-> Unwrap(lib_info),
                returned |-> to_string(Unwrap(info)),
                lib_returned |-> lib_to_string(Unwrap(lib_info))]
    /\ UNCHANGED <<template, context, composer, info, lib_info, history>>

TwinNext ==
    \/ CallBothBumpMajor
    \/ CallBothBumpMinor
    \/ CallBothBumpPatch
    \/ CallBothToString
TwinSpec == TwinInit /\ [][TwinNext]_vars

(***************************************************************************)
(* commands.rs: the bump command.  A config is modelled by the three       *)
(* fields the command reads before it prints, with no current-version-file *)
(* (get_current_version then answers first-version); what the command      *)
(* prints is a line of text or, with structured output, a JSON object held *)
(* as a record of its fields.                                              *)
(***************************************************************************)
get_version_info_with_scheme(version, config, scheme_override, channel_override, env) ==
    IF version = None /\ config = None
    THEN Err("No version provided and no config found", "")
    ELSE new(IF IsSome(version) THEN Unwrap(version) ELSE Unwrap(config).first_version,
             IF IsSome(scheme_override) THEN Unwrap(scheme_override)
             ELSE IF IsSome(config) THEN Unwrap(config).versioning_scheme ELSE "semantic",
             IF IsSome(channel_override) THEN channel_override
             ELSE IF IsSome(config) THEN Unwrap(config).channel ELSE None,
             env)

apply_bump(v, bump, env) ==
    CASE bump = "major" -> Ok(bump_major(v, env))
      [] bump = "minor" -> Ok(bump_minor(v, env))
      [] bump = "patch" -> Ok(bump_patch(v, env))
      [] OTHER -> Err("Invalid bump type: {}. Use major, minor, or patch.", bump)

\* output_error: the error on stderr, or as JSON on stdout, and exit(1)
OutputError(structured, error) ==
    [exit |-> 1,
     stdout |-> IF structured THEN Some([success |-> FALSE, error |-> error]) ELSE None]
Printed(structured, bump, old, v) ==
    [exit |-> 0,
     stdout |-> IF structured
                THEN Some([success |-> TRUE, version |-> to_string(v),
                           previous_version |-> to_string(old), bump_type |-> bump])
                ELSE Some(to_string(v))]
\* after get_version_info_with_scheme succeeded: bump, which may panic, and print
PrintBumped(structured, bump, old, bumped, overflow_checks) ==
    IF ~bumped.ok THEN OutputError(structured, bumped.err)
    ELSE IF /\ overflow_checks
            /\ IsSome(Counted(old.version, bump))
            /\ Overflows(Unwrap(Counted(old.version, bump)))
    THEN [exit |-> 101, stdout |-> None]
    ELSE Printed(structured, bump, old, bumped.val)
\* up to the line that prints the new version
handle_bump_command(options, ctx, env, overflow_checks) ==
    IF ~get_version_info_with_scheme(options.version, ctx.config, options.scheme,
                                     options.channel, env).ok
    THEN OutputError(ctx.structured_output,
                     get_version_info_with_scheme(options.version, ctx.config,
                                                  options.scheme, options.channel, env).err)
    ELSE PrintBumped(ctx.structured_output, options.bump,
            get_version_info_with_scheme(options.version, ctx.config, options.scheme,
                                         options.channel, env).val,
            apply_bump(get_version_info_with_scheme(options.version, ctx.config,
                                                    options.scheme, options.channel, env).val,
                       options.bump, env),
            overflow_checks)

(* The part of handle_bump_command after the print.  An operation on the   *)
(* world outside the process (a file written, a git command run) is a      *)
(* record of what it is and the path or name it is about; the world says   *)
(* which operations fail, whether the package files exist, and whether git *)
(* finds anything to commit.                                               *)
Op(op, path) == [op |-> op, path |-> path]
\* the operations of one list of paths
OpsOn(op, paths) == [i \in 1..Len(paths) |-> Op(op, paths[i])]

\* fs::write of the version file, then generate_headers (templates.rs 132)
\* and update_package_files (package.rs 14), each a loop over its list
ConfigOps(config) ==
    IF ~IsSome(config) THEN <<>>
    ELSE (IF IsSome(Unwrap(config).current_version_file)
          THEN <<Op("write_version_file", Unwrap(Unwrap(config).current_version_file))>>
          ELSE <<>>)
         \o OpsOn("generate_header", UnwrapOr(Unwrap(config).version_headers, <<>>))
         \o OpsOn("update_package_file", UnwrapOr(Unwrap(config).package_files, <<>>))

\* git_commit_changes: git add ., git status --porcelain, git commit
\* git_create_tag: git tag -a
GitOps(options) ==
    (IF options.commit
     THEN <<Op("git add", "."), Op("git status", "--porcelain"), Op("git commit", "-m")>>
     ELSE <<>>)
    \o (IF options.create_tag THEN <<Op("git tag", "-a")>> ELSE <<>>)

\* the operations that change nothing when they succeed: a package file
\* that does not exist is skipped, git status only reads, and git commit is
\* not run when git status printed nothing
Skipped(o, world) ==
    \/ o.op = "update_package_file" /\ world.absent
    \/ o.op = "git commit" /\ world.clean
Reads(o) == o.op = "git status"

\* a run that goes on after an operation failed
RECURSIVE RunOpsOn(_, _, _, _)
RunOpsOn(ops, i, world, run) ==
    IF i > Len(ops) THEN run
    ELSE IF Skipped(ops[i], world) THEN RunOpsOn(ops, i + 1, world, run)
    ELSE IF ops[i] \in world.failing
    THEN RunOpsOn(ops, i + 1, world, [run EXCEPT !.exit = 1, !.failed = Some(ops[i])])
    ELSE RunOpsOn(ops, i + 1, world,
            [run EXCEPT !.effects = IF Reads(ops[i]) THEN @ ELSE Append(@, ops[i])])
\* the operations in turn; the first that fails goes to output_error, which
\* exits with code 1
RECURSIVE RunOps(_, _, _, _)
RunOps(ops, i, world, run) ==
    IF i > Len(ops) THEN run
    ELSE IF Skipped(ops[i], world) THEN RunOps(ops, i + 1, world, run)
    ELSE IF ops[i] \in world.failing
    THEN [run EXCEPT !.exit = 1, !.failed = Some(ops[i])]
    ELSE RunOps(ops, i + 1, world,
            [run EXCEPT !.effects = IF Reads(ops[i]) THEN @ ELSE Append(@, ops[i])])

\* what follows the print: with --dry-run the lines that say what would be
\* done, without it the operations themselves
AfterPrint(options, ctx, world) ==
    IF options.dry_run
    THEN [exit |-> 0, effects |-> <<>>, failed |-> None,
          announced |-> [i \in 1..Len(ConfigOps(ctx.config) \o GitOps(options)) |->
                            (ConfigOps(ctx.config) \o GitOps(options))[i].op]]
    ELSE RunOps(ConfigOps(ctx.config) \o GitOps(options), 1, world,
                [exit |-> 0, effects |-> <<>>, failed |-> None, announced |-> <<>>])

BumpOptions ==
    [version : OptionOf({<<"1", ".", "0", ".", "0">>,
                         <<"1", ".", "2", ".", "3", "-", "r", "c", ".", "1">>,
                         TopU64 \o <<".", "0", ".", "0">>,
                         <<"1", ".", "0">>}),
     bump : {"major", "minor", "patch", "micro"},
     scheme : OptionOf({"semantic", "calver"}),
     channel : OptionOf({<<"b", "e", "t", "a">>, <<"s", "t", "a", "b", "l", "e">>})]
CommandContexts ==
    [config : OptionOf({[versioning_scheme |-> "semantic",
                         channel |-> Some(<<"b", "e", "t", "a">>),
                         first_version |-> <<"1", ".", "0", ".", "0">>],
                        [versioning_scheme |-> "build", channel |-> None,
                         first_version |-> <<"1", ".", "2", ".", "3", ".", "4">>]}),
     structured_output : BOOLEAN]

\* the command line and the config the process was started with
CliInit ==
    /\ template = NewTemplate("t")
    /\ context = NewContext
    /\ composer = NewComposer
    /\ info = None
    /\ lib_info = None
    /\ history = [parsed |-> None, calls |-> <<>>]
    /\ \E options \in BumpOptions, ctx \in CommandContexts :
            last = [op |-> "version-it bump", options |-> options, context |-> ctx]

CallBumpCommand ==
    \E env \in StillVersionEnvs, overflow_checks \in BOOLEAN :
        /\ last.op = "version-it bump"
        /\ last' = [op |-> "bump_command", options |-> last.options, context |-> last.context,
                    made |-> get_version_info_with_scheme(last.options.version,
                                last.context.config, last.options.scheme,
                                last.options.channel, env),
                    ran |-> handle_bump_command(last.options, last.context, env,
                                                overflow_checks)]
        /\ UNCHANGED <<template, context, composer, info, lib_info, history>>
CliNext == CallBumpCommand
CliSpec == CliInit /\ [][CliNext]_vars

\* the most version headers a config lists
MaxHeaders == 2

\* command lines with and without --commit, --create-tag and --dry-run, a
\* version that parses and one that does not, a bump and a word that is none
EffectOptions ==
    [version : {Some(<<"1", ".", "0", ".", "0">>), Some(<<"1", ".", "0">>)},
     bump : {"minor", "micro"},
     scheme : {None},
     channel : {None},
     create_tag : BOOLEAN,
     commit : BOOLEAN,
     dry_run : BOOLEAN]
HeaderPaths == {[i \in 1..n |-> IF i = 1 THEN "version.h" ELSE "version.hpp"] : n \in 1..MaxHeaders}
EffectContexts ==
    [config : OptionOf([versioning_scheme : {"semantic"},
                        channel : {None},
                        first_version : {<<"1", ".", "0", ".", "0">>},
                        current_version_file : OptionOf({"VERSION"}),
                        version_headers : OptionOf(HeaderPaths),
                        package_files : OptionOf({<<"Cargo.toml">>})]),
     structured_output : {FALSE}]
\* no operation fails, or one does
Worlds ==
    [failing : {{}} \cup {{o} : o \in {Op("write_version_file", "VERSION"),
                                        Op("generate_header", "version.h"),
                                        Op("generate_header", "version.hpp"),
                                        Op("update_package_file", "Cargo.toml"),
                                        Op("git add", "."), Op("git status", "--porcelain"),
                                        Op("git commit", "-m"), Op("git tag", "-a")}},
     absent : BOOLEAN,
     clean : BOOLEAN]

EffectInit ==
    /\ template = NewTemplate("t")
    /\ context = NewContext
    /\ composer = NewComposer
    /\ info = None
    /\ lib_info = None
    /\ history = [parsed |-> None, calls |-> <<>>]
    /\ \E options \in EffectOptions, ctx \in EffectContexts, world \in Worlds :
            last = [op |-> "version-it bump", options |-> options, context |-> ctx,
                    world |-> world]

\* the whole of handle_bump_command: the part up to the print and, when that
\* did not exit, the part after it
CallBumpCommandInWorld ==
    \E env \in StillVersionEnvs :
        /\ last.op = "version-it bump"
        /\ last' = [op |-> "bump_command", options |-> last.options, context |-> last.context,
                    world |-> last.world,
                    ran |-> handle_bump_command(last.options, last.context, env, TRUE),
                    did |-> IF handle_bump_command(last.options, last.context, env, TRUE).exit = 0
                            THEN AfterPrint(last.options, last.context, last.world)
                            ELSE [exit |-> handle_bump_command(last.options, last.context,
                                                               env, TRUE).exit,
                                  effects |-> <<>>, failed |-> None, announced |-> <<>>]]
        /\ UNCHANGED <<template, context, composer, info, lib_info, history>>
EffectNext == CallBumpCommandInWorld
EffectSpec == EffectInit /\ [][EffectNext]_vars

(***************************************************************************)
(* Properties of VersionTemplate::generate.  They read the record the      *)
(* last call left in last: the context it was entered with, the            *)
(* block_values each evaluated block found, the segments and the result.   *)
(***************************************************************************)
GenerateCalled == last.op = "generate"
Blocks == template.blocks
IsVersioned(i) == Blocks[i].block_type.kind = "Versioned"
\* the block at position i was evaluated by the last call
Reached(i) == i <= Len(last.found)
\* the positions before i that hold a block named name
Earlier(i, name) == {j \in 1..(i - 1) : Blocks[j].name = name}
Nearest(i, name) == CHOOSE j \in Earlier(i, name) : \A k \in Earlier(i, name) : k <= j
ReferenceError(name) == Err("Referenced version block '{}' not found", name)

\* C1: when generate reaches a Versioned block whose name is the name of no
\* block strictly before it in the template, the call fails with the
\* reference error that names it, whatever block_values held on entry and
\* whatever blocks follow.
C1_UnresolvedReferenceFails ==
    GenerateCalled =>
        \A i \in 1..Len(Blocks) :
            (IsVersioned(i) /\ Reached(i) /\ Earlier(i, Blocks[i].block_type.name) = {})
                => last.result = ReferenceError(Blocks[i].block_type.name)

\* the referenced name was in block_values when the call was entered, and a
\* block of that name follows the reference
C1_Witness ==
    /\ GenerateCalled
    /\ Len(Blocks) = 2
    /\ IsVersioned(1)
    /\ Blocks[1].block_type.name \in DOMAIN last.entry.block_values
    /\ Blocks[2].name = Blocks[1].block_type.name
    /\ last.result = ReferenceError(Blocks[1].block_type.name)

\* C2 as stated: a template with a block named X and, later, a Versioned
\* block that names X generates successfully, the Versioned segment equal to
\* the segment of X; [X, Versioned X] with separator s gives v ++ s ++ v.
C2_AsStated ==
    GenerateCalled =>
        \A j \in 1..Len(Blocks) :
            IsVersioned(j) => \A i \in Earlier(j, Blocks[j].block_type.name) :
                /\ last.result.ok
                /\ last.parts[j] = last.parts[i]
                /\ (Len(Blocks) = 2 /\ template.prefix = None /\ template.suffix = None)
                        => last.result.val = last.parts[i] \o template.separator \o last.parts[i]

\* C2: when generate reaches a Versioned block that names a block before
\* it, the Versioned block evaluates to the very string the nearest such
\* block produced in this call; for [X, Versioned X] where X evaluates to v
\* the result is prefix ++ v ++ separator ++ v ++ suffix.
C2_ReferenceResolves ==
    GenerateCalled =>
        \A j \in 1..Len(Blocks) :
            (IsVersioned(j) /\ Reached(j) /\ Earlier(j, Blocks[j].block_type.name) # {})
                => /\ Len(last.parts) >= j
                   /\ last.parts[j] = last.parts[Nearest(j, Blocks[j].block_type.name)]
                   /\ Len(Blocks) = 2 =>
                        last.result = Ok(UnwrapOr(template.prefix, <<>>) \o last.parts[1]
                                         \o template.separator \o last.parts[1]
                                         \o UnwrapOr(template.suffix, <<>>))

\* [X, Versioned X] with a value of several characters and a separator
C2_Witness ==
    /\ GenerateCalled
    /\ Len(Blocks) = 2
    /\ IsVersioned(2)
    /\ Blocks[2].block_type.name = Blocks[1].name
    /\ template.separator = <<"-">>
    /\ last.result = Ok(<<"v", "4", ".", "5", ".", "6", "-", "4", ".", "5", ".", "6", "+", "s">>)

\* C3: when the evaluation of the block at position i fails, generate
\* returns that error and no string, and evaluates no block after i.
C3_FailureAborts ==
    GenerateCalled =>
        \A i \in 1..Len(last.found) : \A env \in StillEnvs :
            LET seen == [last.entry EXCEPT !.block_values = last.found[i]]
            IN  ~generate_value(Blocks[i], seen, env).res.ok
                    => /\ last.result = generate_value(Blocks[i], seen, env).res
                       /\ last.result.val = <<>>
                       /\ Len(last.found) = i
                       /\ Len(last.parts) = i - 1

\* the first of two blocks failed: the second, which would have succeeded,
\* was not evaluated
C3_Witness ==
    /\ GenerateCalled
    /\ Len(Blocks) = 2
    /\ Blocks[2].block_type.kind = "Text"
    /\ ~last.result.ok
    /\ Len(last.found) = 1
    /\ last.parts = <<>>

\* the map that the values of the first n blocks leave behind, a later
\* block replacing an earlier one of the same name
ValuesOf(n) ==
    [name \in {Blocks[j].name : j \in 1..n} |-> last.parts[Nearest(n + 1, name)]]

\* C5 as stated: block i finds in block_values the values of the blocks
\* before it and nothing else, and after a successful call block_values has
\* one entry per block name, equal to the segment of each block of that name.
C5_AsStated ==
    GenerateCalled =>
        /\ \A i \in 1..Len(last.found) :
                /\ DOMAIN last.found[i] = {Blocks[j].name : j \in 1..(i - 1)}
                /\ \A j \in 1..(i - 1) : last.found[i][Blocks[j].name] = last.parts[j]
        /\ last.result.ok =>
                /\ DOMAIN context.block_values = {Blocks[j].name : j \in 1..Len(Blocks)}
                /\ \A j \in 1..Len(Blocks) : context.block_values[Blocks[j].name] = last.parts[j]

\* C5: block i finds in block_values, for each name of a block before it,
\* the value of the last such block, and nothing else; after a successful
\* call block_values has one entry per block name, the segment of the last
\* block of that name; whatever block_values held on entry.
C5_BlockValuesOfThisCall ==
    GenerateCalled =>
        /\ \A i \in 1..Len(last.found) : last.found[i] = ValuesOf(i - 1)
        /\ last.result.ok => context.block_values = ValuesOf(Len(Blocks))

\* a successful call entered with a value under a name that no block has
C5_Witness ==
    /\ GenerateCalled
    /\ last.result.ok
    /\ Len(Blocks) = 2
    /\ Blocks[1].name # Blocks[2].name
    /\ last.entry.block_values # EmptyMap
    /\ last.found = <<EmptyMap, ValuesOf(1)>>
    /\ DOMAIN context.block_values = {"a", "b"}

Fields(ctx) == [ctx EXCEPT !.block_values = EmptyMap]

\* C6: a template of Semantic, Counter, Text, BuildNumber, Versioned and
\* fully given Calver blocks generates the same result again from the
\* context its own call left behind, whatever git and the clock answer, and
\* leaves every field of the context but block_values as it was.
C6_Repeatable ==
    GenerateCalled =>
        /\ Fields(context) = Fields(last.entry)
        /\ \A env \in Envs : generate(template, context, env).result = last.result

\* a successful call whose reference would resolve differently if the values
\* of the call before were still visible
C6_Witness ==
    /\ GenerateCalled
    /\ last.result.ok
    /\ Len(Blocks) = 2
    /\ IsVersioned(2)
    /\ last.entry.block_values # EmptyMap
    /\ context.block_values # last.entry.block_values
    /\ IsSome(last.entry.current_version)

\* v1 ++ separator ++ v2 ++ ... ++ vn, put together from the left
RECURSIVE Between(_, _, _)
Between(parts, n, separator) ==
    IF n = 0 THEN <<>>
    ELSE IF n = 1 THEN parts[1]
    ELSE Between(parts, n - 1, separator) \o separator \o parts[n]

RECURSIVE SumLen(_, _)
SumLen(parts, n) == IF n = 0 THEN 0 ELSE SumLen(parts, n - 1) + Len(parts[n])

\* C4: when the n blocks of a template evaluate to v1..vn, generate returns
\* prefix ++ v1 ++ separator ++ ... ++ separator ++ vn ++ suffix: the
\* separator n-1 times (none for n = 0 and n = 1), an absent prefix or
\* suffix as the empty string.
C4_JoinedAndWrapped ==
    (GenerateCalled /\ last.result.ok) =>
        /\ Len(last.parts) = Len(Blocks)
        /\ \A i \in 1..Len(Blocks) : \A env \in StillEnvs :
                last.parts[i] = generate_value(Blocks[i],
                    [last.entry EXCEPT !.block_values = last.found[i]], env).res.val
        /\ last.result.val = UnwrapOr(template.prefix, <<>>)
                             \o Between(last.parts, Len(Blocks), template.separator)
                             \o UnwrapOr(template.suffix, <<>>)
        /\ Len(last.result.val) =
                Len(UnwrapOr(template.prefix, <<>>)) + SumLen(last.parts, Len(Blocks))
                + (IF Len(Blocks) = 0 THEN 0 ELSE (Len(Blocks) - 1) * Len(template.separator))
                + Len(UnwrapOr(template.suffix, <<>>))

\* prefix "v", separator "-", Semantic{1,0,0} and Counter{build} with build = 5
C4_Witness ==
    /\ GenerateCalled
    /\ template.prefix = Some(<<"v">>)
    /\ template.suffix = None
    /\ template.separator = <<"-">>
    /\ Len(Blocks) = 2
    /\ Blocks[1].block_type.kind = "Semantic"
    /\ Blocks[2].block_type.kind = "Counter"
    /\ last.result = Ok(<<"v", "1", ".", "0", ".", "0", "-", "5">>)

OnlyGit == \A i \in 1..Len(Blocks) : Blocks[i].block_type.kind \in {"Commit", "Branch"}
FieldOf(i) ==
    IF Blocks[i].block_type.kind = "Commit" THEN last.entry.current_commit
    ELSE last.entry.current_branch
CommandOf(i) ==
    IF Blocks[i].block_type.kind = "Commit" THEN "rev-parse --short HEAD"
    ELSE "rev-parse --abbrev-ref HEAD"
Asked(cmd) == {last.queries[k] : k \in {k \in 1..Len(last.queries) : last.queries[k].cmd = cmd}}
Unknown == <<"u", "n", "k", "n", "o", "w", "n">>

\* C9 as stated: a Commit or Branch block whose context field is set
\* evaluates to the field and does not ask git; with the field absent it
\* evaluates to the trimmed output of a git that ran and exited 0, and to
\* "unknown" when git exited non-zero or could not be started; a template of
\* Commit and Branch blocks only always generates a string.
C9_AsStated ==
    (GenerateCalled /\ OnlyGit) =>
        /\ last.result.ok
        /\ \A i \in 1..Len(Blocks) :
                IF IsSome(FieldOf(i))
                THEN last.parts[i] = Unwrap(FieldOf(i)) /\ Asked(CommandOf(i)) = {}
                ELSE \E q \in Asked(CommandOf(i)) :
                        last.parts[i] = IF q.kind = "ok" THEN Trim(q.stdout) ELSE Unknown

\* C7 as stated: increment_counter(name) on a counter holding v (0 when it
\* has none) returns v + 1 and leaves v + 1 stored, the other counters, the
\* templates and the default template as they were.
C7_AsStated ==
    last.op = "increment_counter" =>
        /\ ~last.panicked
        /\ last.returned = U32Succ(UnwrapOr(MapGet(last.entry.counters, last.name), U32Zero))
        /\ composer = [last.entry EXCEPT !.counters = MapInsert(@, last.name, last.returned)]

NoTemplate == Err("No template specified and no default template set", "")
NotFound(name) == Err("Template '{}' not found", name)
Named == OptionOr(last.template_name, last.entry.default_template)

\* C8: generate_version uses the explicit name when one is given and the
\* default template otherwise; it fails with the no-template error exactly
\* when neither is present, and with the not-found error that names the
\* resolved name exactly when that name is no key of templates, an unknown
\* explicit name never falling back to a default that exists; otherwise it
\* generates from the template under the resolved name.
C8_Resolution ==
    last.op = "generate_version" =>
        /\ (last.result = NoTemplate) <=> ~IsSome(Named)
        /\ IsSome(Named) =>
                IF Unwrap(Named) \in DOMAIN last.entry.templates
                THEN /\ last.ran = Some(last.entry.templates[Unwrap(Named)])
                     /\ last.result.err \notin {NoTemplate.err, NotFound("").err}
                ELSE /\ last.result = NotFound(Unwrap(Named))
                     /\ last.ran = None
        /\ ~IsSome(Named) => last.ran = None

\* an explicit name that is no key of templates, a default that is one
C8_Witness ==
    /\ last.op = "generate_version"
    /\ IsSome(last.template_name)
    /\ Unwrap(last.template_name) \notin DOMAIN last.entry.templates
    /\ IsSome(last.entry.default_template)
    /\ Unwrap(last.entry.default_template) \in DOMAIN last.entry.templates
    /\ last.result = NotFound(Unwrap(last.template_name))

\* what build_context makes of the answer to its k-th git query
Derived(k) ==
    IF last.queries[k].kind = "ok" THEN Some(Trim(last.queries[k].stdout)) ELSE None

\* C10: the context generate_version_with_context generates from has, for
\* each of current_version, current_commit, current_branch and build_number,
\* the value of the provided context when it is present there and the value
\* of the composer's own context (its git-derived commit and branch)
\* otherwise, and as counters the composer's counters overlaid with the
\* provided ones, the provided value winning.
C10_MergedContext ==
    (last.op = "generate_version_with_context" /\ IsSome(last.used)) =>
        LET provided == Unwrap(last.override)
            used == Unwrap(last.used)
        IN  /\ used.current_version = provided.current_version
            /\ used.build_number = provided.build_number
            /\ used.current_commit =
                    IF IsSome(provided.current_commit) THEN provided.current_commit
                    ELSE Derived(1)
            /\ used.current_branch =
                    IF IsSome(provided.current_branch) THEN provided.current_branch
                    ELSE Derived(2)
            /\ DOMAIN used.counters = DOMAIN last.entry.counters \cup DOMAIN provided.counters
            /\ \A name \in DOMAIN used.counters :
                    used.counters[name] =
                        IF name \in DOMAIN provided.counters THEN provided.counters[name]
                        ELSE last.entry.counters[name]

\* the provided commit replaces the one git gave, the branch git gave stays,
\* the provided counters replace and extend the composer's, whose other stays
C10_Witness ==
    /\ last.op = "generate_version_with_context"
    /\ IsSome(last.used)
    /\ Derived(1) = Some(<<"d", "e", "f", "4">>)
    /\ Unwrap(last.used).current_commit = Some(<<"a", "b", "c", "1", "2", "3">>)
    /\ Unwrap(last.override).current_branch = None
    /\ Unwrap(last.used).current_branch = Some(<<"d", "e", "v">>)
    /\ DOMAIN last.entry.counters = {"build", "other"}
    /\ Unwrap(last.used).counters = [name \in {"build", "other", "extra"} |->
                                        CASE name = "build" -> U32(9)
                                          [] name = "other" -> U32(5)
                                          [] name = "extra" -> U32(1)]

\* a decimal numeral as to_string writes it: digits, no sign, no leading zero
IsDecimal(s) == s # <<>> /\ AllIn(s, DigitSet) /\ (Len(s) = 1 \/ s[1] # "0")

\* C11: after any sequence of set_counter and increment_counter calls,
\* generate_version renders every Counter{name} block it reaches as the
\* decimal numeral of the composer's value for name, as "0" when the
\* composer has no counter of that name, and the block does not fail.
C11_CounterRendered ==
    (last.op = "generate_version" /\ IsSome(last.ran)) =>
        \A i \in 1..last.evaluated :
            Unwrap(last.ran).blocks[i].block_type.kind = "Counter" =>
                /\ Len(last.parts) >= i
                /\ IsDecimal(last.parts[i])
                /\ ParseUnsigned(last.parts[i], W32) =
                        Some(UnwrapOr(MapGet(composer.counters,
                                             Unwrap(last.ran).blocks[i].block_type.name),
                                      U32Zero))

\* a counter that holds 4294967295 is rendered with all its
\* ten digits, beside a counter the composer does not hold
C11_Witness ==
    /\ last.op = "generate_version"
    /\ IsSome(last.ran)
    /\ DOMAIN composer.counters = {"build"}
    /\ \E i, j \in 1..Len(last.parts) :
            /\ Unwrap(last.ran).blocks[i].block_type = Counter("build")
            /\ last.parts[i] = <<"4", "2", "9", "4", "9", "6", "7", "2", "9", "5">>
            /\ Unwrap(last.ran).blocks[j].block_type = Counter("other")
            /\ last.parts[j] = <<"0">>

\* where the prerelease and build metadata of a version text begin: the
\* first "-" or "+", or one past the end when it has neither
MetaAt(text) ==
    IF \E k \in 1..Len(text) : text[k] \in {"-", "+"}
    THEN CHOOSE k \in 1..Len(text) :
            text[k] \in {"-", "+"} /\ \A j \in 1..(k - 1) : text[j] \notin {"-", "+"}
    ELSE Len(text) + 1
CoreOf(text) == SplitOn(SubSeq(text, 1, MetaAt(text) - 1), ".")
MetaOf(text) == SubSeq(text, MetaAt(text), Len(text))
\* the text of the last call's current_version, "0.0.0" when it had none
BaseText == UnwrapOr(last.entry.current_version, <<"0", ".", "0", ".", "0">>)
\* the k-th number a Semantic block writes: its own when it sets one, the
\* one of the base text otherwise
Component(set, k) == IF IsSome(set) THEN NatToString(Unwrap(set)) ELSE CoreOf(BaseText)[k]
Replaced(bt) ==
    Component(bt.major, 1) \o <<".">> \o Component(bt.minor, 2) \o <<".">>
        \o Component(bt.patch, 3)
IsSemantic(i) == Blocks[i].block_type.kind = "Semantic"

BumpCalled(bump) == last.op = "bump" /\ last.arg = bump
\* the number after u, not cut to the width of u
After(u) == IF Overflows(u) THEN <<1>> \o WZero(Len(u)) ELSE WSucc(u)
\* the value before the k-th call on it, and after it
Before(k) == Unwrap(IF k = 1 THEN history.parsed ELSE history.calls[k - 1].value)
Left(k) == Unwrap(history.calls[k].value)
Calls == Len(history.calls)
Was(kind) == last.op = "bump" /\ last.entry.version.kind = kind
Now == Unwrap(info).version

\* C13 as stated: on a semantic version M.m.p bumpMajor yields (M+1).0.0,
\* bumpMinor M.(m+1).0 and bumpPatch M.m.(p+1), each without prerelease and
\* build metadata; two bumpPatch calls in a row raise p by 2 and leave M and
\* m as they were.
C13_AsStated ==
    /\ Was("Semantic") =>
            /\ ~last.panicked
            /\ Now.kind = "Semantic"
            /\ Now.v.pre = None /\ Now.v.build = None
            /\ BumpCalled("major") =>
                    /\ Now.v.major = After(last.entry.version.v.major)
                    /\ Now.v.minor = WZero(W64)
                    /\ Now.v.patch = WZero(W64)
            /\ BumpCalled("minor") =>
                    /\ Now.v.major = last.entry.version.v.major
                    /\ Now.v.minor = After(last.entry.version.v.minor)
                    /\ Now.v.patch = WZero(W64)
            /\ BumpCalled("patch") =>
                    /\ Now.v.major = last.entry.version.v.major
                    /\ Now.v.minor = last.entry.version.v.minor
                    /\ Now.v.patch = After(last.entry.version.v.patch)
    /\ \A k \in 2..Calls :
            (/\ Before(k - 1).version.kind = "Semantic"
             /\ history.calls[k - 1].op = "bump" /\ history.calls[k - 1].arg = "patch"
             /\ history.calls[k].op = "bump" /\ history.calls[k].arg = "patch")
                => /\ Left(k).version.v.major = Before(k - 1).version.v.major
                   /\ Left(k).version.v.minor = Before(k - 1).version.v.minor
                   /\ Left(k).version.v.patch = After(After(Before(k - 1).version.v.patch))

\* a bumpPatch is among the calls made so far
PatchBumped == \E k \in 1..Calls : history.calls[k].op = "bump" /\ history.calls[k].arg = "patch"

\* C14 as stated: on a Build value a.b.c.d bumpMajor yields (a+1).0.0.d,
\* bumpMinor a.(b+1).0.d and bumpPatch a.b.(c+1).0; after any sequence of
\* bumps the 4th component is the parsed d when no bumpPatch was among them
\* and 0 otherwise.
C14_AsStated ==
    /\ Was("Build") =>
            /\ ~last.panicked
            /\ BumpCalled("major") =>
                    Now = [kind |-> "Build", major |-> After(last.entry.version.major),
                           minor |-> WZero(W32), patch |-> WZero(W32),
                           build |-> last.entry.version.build]
            /\ BumpCalled("minor") =>
                    Now = [kind |-> "Build", major |-> last.entry.version.major,
                           minor |-> After(last.entry.version.minor),
                           patch |-> WZero(W32), build |-> last.entry.version.build]
            /\ BumpCalled("patch") =>
                    Now = [kind |-> "Build", major |-> last.entry.version.major,
                           minor |-> last.entry.version.minor,
                           patch |-> After(last.entry.version.patch), build |-> WZero(W32)]
    /\ (IsSome(info) /\ Now.kind = "Build") =>
            Now.build = IF PatchBumped THEN WZero(W32) ELSE Unwrap(history.parsed).version.build

\* C15 as stated: on a Calver value y.m.d bumpMajor yields (y+1).1.1,
\* bumpMinor y.(m+1).1 and bumpPatch y.m.(d+1), month 12 becoming 13 and day
\* 31 becoming 32; no sequence of bumpMinor and bumpPatch calls changes the
\* year.
C15_AsStated ==
    /\ Was("Calver") =>
            /\ ~last.panicked
            /\ BumpCalled("major") =>
                    Now = [kind |-> "Calver", year |-> After(last.entry.version.year),
                           month |-> Wide(1, W32), day |-> Wide(1, W32)]
            /\ BumpCalled("minor") =>
                    Now = [kind |-> "Calver", year |-> last.entry.version.year,
                           month |-> After(last.entry.version.month), day |-> Wide(1, W32)]
            /\ BumpCalled("patch") =>
                    Now = [kind |-> "Calver", year |-> last.entry.version.year,
                           month |-> last.entry.version.month,
                           day |-> After(last.entry.version.day)]
            /\ (BumpCalled("minor") /\ last.entry.version.month = Wide(12, W32))
                    => Now.month = Wide(13, W32)
            /\ (BumpCalled("patch") /\ last.entry.version.day = Wide(31, W32))
                    => Now.day = Wide(32, W32)
    /\ (IsSome(info) /\ Now.kind = "Calver"
            /\ \A k \in 1..Calls : history.calls[k].op = "bump" => history.calls[k].arg # "major")
            => Now.year = Unwrap(history.parsed).version.year

\* the variant VersionInfo::new selects for a scheme name
VariantOf(scheme) ==
    CASE scheme = "calver" -> "Calver"
      [] scheme = "timestamp" -> "Timestamp"
      [] scheme = "commit" -> "Commit"
      [] scheme = "build" -> "Build"
      [] scheme = "monotonic" -> "Monotonic"
      [] scheme = "datetime" -> "Datetime"
      [] scheme = "pattern" -> "Pattern"
      [] OTHER -> "Semantic"
SchemeNames ==
    {"semantic", "calver", "timestamp", "commit", "build", "monotonic", "datetime", "pattern"}

\* C16 as stated: no call changes the variant or the stored scheme name of
\* a value, and in every state the stored scheme name is the name of the
\* scheme of the variant.
C16_AsStated ==
    IsSome(info) =>
        /\ Now.kind = Unwrap(history.parsed).version.kind
        /\ Unwrap(info).scheme = Unwrap(history.parsed).scheme
        /\ Unwrap(info).scheme \in SchemeNames
        /\ Now.kind = VariantOf(Unwrap(info).scheme)

\* C16: the variant of a value is fixed by the declared scheme when it is
\* parsed and no sequence of bumpMajor, bumpMinor, bumpPatch, set_prerelease
\* and set_build calls changes it; the stored scheme name is the declared
\* one and never changes either; in every state the variant is the one of
\* the stored name when that is calver, timestamp, commit, build, monotonic,
\* datetime or pattern, and Semantic for "semantic" and for every other
\* name, which is stored as it was given.
C16_VariantFixed ==
    /\ (last.op = "new" /\ last.result.ok) =>
            /\ Unwrap(info).scheme = last.scheme
            /\ history.parsed = info
    /\ IsSome(info) =>
            /\ Now.kind = VariantOf(Unwrap(info).scheme)
            /\ Unwrap(info).scheme = Unwrap(history.parsed).scheme
            /\ \A k \in 1..Calls :
                    /\ Left(k).scheme = Unwrap(history.parsed).scheme
                    /\ Left(k).version.kind = Unwrap(history.parsed).version.kind
                    /\ Left(k).channel = Unwrap(history.parsed).channel

\* a value declared under the name foo, after set_prerelease and a bump; it
\* is Semantic
C16_Witness ==
    /\ IsSome(info)
    /\ Unwrap(info).scheme = "foo"
    /\ Now.kind = "Semantic"
    /\ Calls >= 2
    /\ history.calls[1].op = "set_prerelease"
    /\ history.calls[2].op = "bump"
    /\ Left(2) # Unwrap(history.parsed)

ToStringCalled(channel) == last.op = "to_string" /\ last.entry.channel = channel
Base == BaseVersion(last.entry.version)
Beta == Some(<<"b", "e", "t", "a">>)
Stable == Some(<<"s", "t", "a", "b", "l", "e">>)

Nightly == Some(<<"n", "i", "g", "h", "t", "l", "y">>)

\* C19: with channel nightly to_string gives the base string for a
\* Timestamp or Commit value and base ++ "-nightly" for a value of any other
\* scheme; with a channel that is none of stable, beta and nightly it gives
\* base ++ "-" ++ channel; with no channel it gives the base string.
C19_NightlyAndOther ==
    last.op = "to_string" =>
        /\ last.entry.channel = Nightly =>
                last.returned =
                    IF last.entry.version.kind \in {"Timestamp", "Commit"} THEN Base
                    ELSE Base \o <<"-", "n", "i", "g", "h", "t", "l", "y">>
        /\ last.entry.channel = None => last.returned = Base
        /\ last.entry.channel \notin {None, Stable, Beta, Nightly} =>
                last.returned = Base \o <<"-">> \o Unwrap(last.entry.channel)

\* a timestamp that a bump took from the clock, under nightly
C19_Witness ==
    /\ ToStringCalled(Nightly)
    /\ last.entry.version.kind = "Timestamp"
    /\ Calls >= 1
    /\ last.returned = <<"2", "0", "2", "6", "1", "1", "0", "3", "0", "4", "0", "5", "0", "7">>

\* the bump command made a semantic value with channel beta and printed a line
PrintedBeta ==
    /\ last.op = "bump_command"
    /\ last.made.ok
    /\ last.made.val.version.kind = "Semantic"
    /\ last.made.val.channel = Beta
    /\ ~last.context.structured_output
    /\ last.ran.exit = 0

\* C18 as stated: the bump command on a semantic version with channel beta
\* prints the bumped base version followed by "-beta"; bump minor of 1.0.0
\* prints 1.1.0-beta.
C18_AsStated ==
    PrintedBeta =>
        /\ \A env \in StillVersionEnvs :
                last.ran.stdout =
                    Some(BaseVersion(apply_bump(last.made.val, last.options.bump, env).val.version)
                         \o <<"-", "b", "e", "t", "a">>)
        /\ (last.options.version = Some(<<"1", ".", "0", ".", "0">>)
                /\ last.options.bump = "minor")
                => last.ran.stdout = Some(<<"1", ".", "1", ".", "0", "-", "b", "e", "t", "a">>)

\* an integer as a reader takes it: digits, a sign before them or none
IsInteger(s) ==
    /\ s # <<>>
    /\ AllIn(IF s[1] \in {"+", "-"} THEN Tail(s) ELSE s, DigitSet)
    /\ (IF s[1] \in {"+", "-"} THEN Tail(s) ELSE s) # <<>>
Parts(text) == SplitOn(text, ".")
\* the prerelease and build parts of a version text, none when it has none
PreOf(text) ==
    IF MetaAt(text) > Len(text) \/ text[MetaAt(text)] = "+" THEN None
    ELSE Some(SubSeq(text, MetaAt(text) + 1,
                     IF IndexOf(text, "+", 1) = 0 THEN Len(text) ELSE IndexOf(text, "+", 1) - 1))
BuildOf(text) ==
    IF IndexOf(text, "+", 1) = 0 THEN None
    ELSE Some(SubSeq(text, IndexOf(text, "+", 1) + 1, Len(text)))
\* major.minor.patch with optional -prerelease and +build, by the grammar of
\* semantic versioning
IsSemver(text) ==
    /\ Len(CoreOf(text)) = 3
    /\ \A i \in 1..3 : IsNumericId(CoreOf(text)[i])
    /\ IsSome(PreOf(text)) => AllPrereleaseIds(Unwrap(PreOf(text)))
    /\ IsSome(BuildOf(text)) => AllBuildIds(Unwrap(BuildOf(text)))
\* the texts that new is to reject under a scheme
Malformed(scheme, text) ==
    CASE scheme = "semantic" -> ~IsSemver(text)
      [] scheme = "calver" ->
            Len(Parts(text)) < 2 \/ \E i \in 1..Len(Parts(text)) : ~IsInteger(Parts(text)[i])
      [] scheme = "build" ->
            Len(Parts(text)) # 4 \/ \E i \in 1..Len(Parts(text)) : ~IsInteger(Parts(text)[i])
      [] scheme = "monotonic" -> ~IsInteger(text) \/ text[1] = "-"
      [] OTHER -> FALSE

\* C20 as stated: new returns an error and makes no value when the scheme
\* is semantic and the text no major.minor.patch with optional prerelease
\* and build, when it is calver and the text has fewer than two components
\* or a component that is no number, when it is build and the text is not
\* four integers, when it is monotonic and the text no non-negative integer;
\* a calver text of two components parses with day 1.
C20_AsStated ==
    last.op = "new" =>
        /\ Malformed(last.scheme, last.version) => ~last.result.ok /\ info = None
        /\ (last.scheme = "calver" /\ Len(Parts(last.version)) = 2 /\ last.result.ok)
                => Now.day = Wide(1, W32)

(***************************************************************************)
(* C21: generation leaves the composer and the template as they were       *)
(***************************************************************************)
ComposerGenerateCalled ==
    last.op \in {"generate_version", "generate_version_with_context"}

\* C21: generate_version and generate_version_with_context, whether they
\* succeed or fail, leave the composer's templates, counters and
\* default_template as they were on entry; the counters of a provided context
\* are not stored in the composer, so a generate_version call always
\* generates from the composer's own counters; and the template a call
\* generated from is, after the call, still the template it was.
C21_ComposerUnchanged ==
    ComposerGenerateCalled =>
        /\ composer.templates = last.entry.templates
        /\ composer.counters = last.entry.counters
        /\ composer.default_template = last.entry.default_template
        /\ IsSome(last.ran) =>
                MapGet(composer.templates, Unwrap(last.ran).name) = last.ran
        /\ (last.op = "generate_version" /\ IsSome(last.used)) =>
                Unwrap(last.used).counters = composer.counters

\* a call that generated with provided counters the composer does not hold,
\* and one that failed with them
C21_Witness ==
    /\ last.op = "generate_version_with_context"
    /\ IsSome(last.used)
    /\ ~last.result.ok
    /\ DOMAIN composer.counters = {"other"}
    /\ DOMAIN Unwrap(last.used).counters = {"build", "extra", "other"}

(***************************************************************************)
(* C22: from_config and add_template                                       *)
(***************************************************************************)
\* the names of a list of templates, and the last position a name has in it
NamesOf(templates) == {templates[i].name : i \in 1..Len(templates)}
LastNamed(templates, name) ==
    CHOOSE i \in 1..Len(templates) :
        /\ templates[i].name = name
        /\ \A j \in (i + 1)..Len(templates) : templates[j].name # name

\* C22: from_config(config) returns a composer whose counters are
\* config.counters, whose default_template is config.default_template and
\* whose templates hold, for each name in config.templates, the last template
\* of the list with that name; add_template stores the template under its
\* name, replacing the one registered there, and leaves every other template,
\* the counters and the default as they were.
C22_FromConfigAndAddTemplate ==
    /\ last.op = "from_config" =>
        /\ composer.counters = last.config.counters
        /\ composer.default_template = last.config.default_template
        /\ DOMAIN composer.templates = NamesOf(last.config.templates)
        /\ \A name \in NamesOf(last.config.templates) :
                composer.templates[name] =
                    last.config.templates[LastNamed(last.config.templates, name)]
    /\ last.op = "add_template" =>
        /\ DOMAIN composer.templates = DOMAIN last.entry.templates \cup {last.template.name}
        /\ \A name \in DOMAIN composer.templates :
                composer.templates[name] =
                    IF name = last.template.name THEN last.template
                    ELSE last.entry.templates[name]
        /\ composer.counters = last.entry.counters
        /\ composer.default_template = last.entry.default_template

\* a template added under a name that another template holds, to a composer
\* with a second template, counters and a default
C22_Witness ==
    /\ last.op = "add_template"
    /\ DOMAIN last.entry.templates = {"t", "semantic"}
    /\ last.template.name = "t"
    /\ last.entry.templates["t"] # last.template
    /\ DOMAIN composer.counters = {"build", "other"}
    /\ composer.default_template = Some("none")

(***************************************************************************)
(* C23: the bumps of a Monotonic value                                     *)
(***************************************************************************)
\* u + k, not cut to the width of u
RECURSIVE Plus(_, _)
Plus(u, k) == IF k = 0 THEN u ELSE After(Plus(u, k - 1))
\* the first k calls are bumps
BumpsOnly(k) == \A j \in 1..k : history.calls[j].op = "bump"

\* C23 as stated: on a Monotonic value n each of bumpMajor, bumpMinor and
\* bumpPatch yields n + 1, and k bumps of any kinds in a row yield n + k.
C23_AsStated ==
    /\ Was("Monotonic") =>
            /\ ~last.panicked
            /\ Now.kind = "Monotonic"
            /\ Now.n = After(last.entry.version.n)
    /\ \A k \in 1..Calls :
            (Before(1).version.kind = "Monotonic" /\ BumpsOnly(k)) =>
                Left(k).version.n = Plus(Before(1).version.n, k)

(***************************************************************************)
(* C24: a failed resolution comes before the context                       *)
(***************************************************************************)
\* the call failed to resolve a name or to find the template of that name
ResolutionFailed ==
    /\ ComposerGenerateCalled
    /\ ~last.result.ok
    /\ last.result.err \in {"No template specified and no default template set",
                            "Template '{}' not found"}

\* C24: when generate_version or generate_version_with_context fails at name
\* resolution or template lookup, no context has been built, no git query
\* has been issued and no block has been evaluated.
C24_FailsBeforeContext ==
    ResolutionFailed =>
        /\ last.used = None
        /\ last.ran = None
        /\ last.queries = <<>>
        /\ last.evaluated = 0
        /\ last.parts = <<>>

\* generate_version fails to find the named template in a composer that
\* holds another template and a counter
C24_Witness ==
    /\ last.op = "generate_version"
    /\ last.result = NotFound("u")
    /\ DOMAIN last.entry.templates = {"t"}
    /\ DOMAIN last.entry.counters # {}
    /\ last.queries = <<>>

(***************************************************************************)
(* C25: the kinds of block whose evaluation fails                          *)
(***************************************************************************)
\* the kind of the block at which the call failed
FailedKind == Blocks[Len(last.found)].block_type.kind

\* C25 as stated: a Versioned block is the only block whose evaluation
\* returns an error; a block of any other kind returns a string on every
\* context, one whose current_version is no semantic version included.
C25_AsStated ==
    (GenerateCalled /\ ~last.result.ok) => FailedKind = "Versioned"

(***************************************************************************)
(* C26: the context a failed generate leaves                               *)
(***************************************************************************)
GenerateFailed == GenerateCalled /\ ~last.result.ok
\* the fields of the context that generate does not write
FrameKept ==
    /\ context.current_version = last.entry.current_version
    /\ context.current_commit = last.entry.current_commit
    /\ context.current_branch = last.entry.current_branch
    /\ context.build_number = last.entry.build_number
    /\ context.counters = last.entry.counters

Shared == \E i, j \in 1..Len(Blocks) : i < j /\ Blocks[i].name = Blocks[j].name
\* what block i evaluates to on the block_values it found
Own(i) ==
    generate_value(Blocks[i], [last.entry EXCEPT !.block_values = last.found[i]],
                   CHOOSE env \in StillEnvs : env.commit.kind = "ok").res
\* the last position that holds a block named name
LastOf(name) == Nearest(Len(Blocks) + 1, name)

\* C27: when two blocks of a template share a name, generate fails only
\* where the evaluation of a block fails and succeeds otherwise; every block
\* contributes its own segment to the output; a Versioned block resolves to
\* the value of the nearest earlier block of the name it refers to; and
\* after the call block_values has under each name the value of the last
\* block of that name.
C27_SharedNames ==
    (GenerateCalled /\ Shared) =>
        /\ ~last.result.ok => last.result = Own(Len(last.found)) /\ ~Own(Len(last.found)).ok
        /\ \A i \in 1..Len(last.parts) : last.parts[i] = Own(i).val
        /\ \A j \in 1..Len(last.parts) :
                (IsVersioned(j) /\ Earlier(j, Blocks[j].block_type.name) # {}) =>
                    last.parts[j] = last.parts[Nearest(j, Blocks[j].block_type.name)]
        /\ last.result.ok =>
                /\ Len(last.parts) = Len(Blocks)
                /\ last.result.val = Between(last.parts, Len(Blocks), template.separator)
                /\ \A i \in 1..Len(Blocks) :
                        context.block_values[Blocks[i].name] = last.parts[LastOf(Blocks[i].name)]

\* two blocks named a with different values, then a reference to a: the
\* call succeeds with three segments, the third equal to the second
C27_Witness ==
    /\ GenerateCalled
    /\ Len(Blocks) = 3
    /\ Blocks[1].name = "a" /\ Blocks[2].name = "a"
    /\ Blocks[3].block_type = Versioned("a")
    /\ last.result.ok
    /\ last.parts[1] # last.parts[2]
    /\ last.parts[3] = last.parts[2]
    /\ context.block_values["a"] = last.parts[2]

(***************************************************************************)
(* C28: increment_counter at the top of u32                                *)
(***************************************************************************)
\* the order of two u32
Greater(a, b) == a[1] > b[1] \/ (a[1] = b[1] /\ a[2] > b[2])

\* C28 as stated: for every value v stored under a name, the largest u32
\* included, increment_counter returns a value strictly greater than v and
\* stores it, so that the counter does not decrease.
C28_AsStated ==
    (last.op = "increment_counter" /\ last.name \in DOMAIN last.entry.counters) =>
        /\ ~last.panicked
        /\ Greater(last.returned, last.entry.counters[last.name])
        /\ MapGet(composer.counters, last.name) = Some(last.returned)

(***************************************************************************)
(* C29: the VersionInfo of version-it-core and of version-it-version       *)
(***************************************************************************)
BumpedSchemes == {"semantic", "calver", "build", "monotonic", "pattern"}

\* C29 as stated: for a scheme and a version text that new of either crate
\* accepts, without a channel, to_string of the two values is the same
\* text, at once and, for semantic, calver, build, monotonic and pattern
\* values, after every sequence of bump_major, bump_minor and bump_patch
\* calls made on both.
C29_AsStated ==
    (last.op = "to_string" /\ (Calls = 0 \/ last.entry.scheme \in BumpedSchemes)) =>
        last.returned = last.lib_returned

(***************************************************************************)
(* C30: the side effects of the bump command                               *)
(***************************************************************************)
BumpRan == last.op = "bump_command"
\* the place of an operation in the order the claim gives
Rank(o) ==
    CASE o.op = "write_version_file" -> 1
      [] o.op = "generate_header" -> 2
      [] o.op = "update_package_file" -> 3
      [] o.op \in {"git add", "git status", "git commit"} -> 4
      [] o.op = "git tag" -> 5
Effects == last.did.effects
Did(op) == \E i \in 1..Len(Effects) : Effects[i].op = op
Config == last.context.config

\* C30: without --dry-run the bump command writes the version file, then
\* generates the headers, then updates the package files, then commits if
\* --commit was given, then tags if --create-tag was given; the first of
\* these that fails ends the command with exit code 1 and nothing that comes
\* later is done, a tag least of all; when none fails all of them are done;
\* with --dry-run none is done.
C30_SideEffectsInOrder ==
    BumpRan =>
        /\ \A i, j \in 1..Len(Effects) : i < j => Rank(Effects[i]) <= Rank(Effects[j])
        /\ Did("git commit") => last.options.commit
        /\ Did("git tag") => last.options.create_tag
        /\ last.options.dry_run => Effects = <<>>
        /\ IsSome(last.did.failed) =>
                /\ last.did.exit = 1
                /\ \A i \in 1..Len(Effects) : Rank(Effects[i]) <= Rank(Unwrap(last.did.failed))
                /\ ~Did("git tag")
                /\ Unwrap(last.did.failed).op = "git add" => ~Did("git commit")
        /\ (last.did.exit = 0 /\ ~last.options.dry_run) =>
                /\ Did("write_version_file") <=>
                        (IsSome(Config) /\ IsSome(Unwrap(Config).current_version_file))
                /\ IsSome(Config) =>
                        \A h \in 1..Len(UnwrapOr(Unwrap(Config).version_headers, <<>>)) :
                            \E i \in 1..Len(Effects) :
                                Effects[i] = Op("generate_header",
                                                Unwrap(Unwrap(Config).version_headers)[h])
                /\ Did("update_package_file") <=>
                        (/\ IsSome(Config) /\ IsSome(Unwrap(Config).package_files)
                         /\ ~last.world.absent)
                /\ Did("git commit") <=> (last.options.commit /\ ~last.world.clean)
                /\ Did("git tag") <=> last.options.create_tag

\* --commit and --create-tag were given, the file, both headers and the
\* package file were written, the commit failed: no tag
C30_Witness ==
    /\ BumpRan
    /\ last.options.commit /\ last.options.create_tag /\ ~last.options.dry_run
    /\ last.did.failed = Some(Op("git commit", "-m"))
    /\ Effects = <<Op("write_version_file", "VERSION"), Op("generate_header", "version.h"),
                   Op("generate_header", "version.hpp"),
                   Op("update_package_file", "Cargo.toml"), Op("git add", ".")>>
    /\ last.did.exit = 1

====
